---- MODULE Spec2Model ----
(***************************************************************************)
(* Verification model of the citation-manager agent                        *)
(* (src/agents/citation_manager): the metadata pipeline of engine.py       *)
(* (normalize_metadata, extract_from_raw_text, merge_metadata), the store  *)
(* of ltm.py behind save_to_ltm, and the request handlers of app.py.       *)
(*                                                                         *)
(* Python values are tagged records, so that a string, a number, a list    *)
(* and None stay distinct and truthiness is decided as Python decides it.  *)
(* A Python str is a sequence of one-character strings; characters outside *)
(* ASCII and the tab are written by name ("U+2013", "TAB").                *)
(***************************************************************************)
EXTENDS Integers, Sequences, FiniteSets, TLC

VARIABLES
    base, extracted, merged, mergeDone,     \* a call of merge_metadata
    metadata, item, item2, normPhase,       \* calls of normalize_metadata
    store,                                  \* the rows of the citations table, oldest first
    cslMode,                                \* what the CSL engine does in this run
    saveItem, saveForce, saveCalled,        \* the last call of save_to_ltm
    storeBefore,                            \* the rows before that call
    handler, request, status,               \* the request served, and its HTTP status
    layers,                                 \* per record built: its sources and the final record
    response,                               \* the result part of the response body
    calls, heap,                            \* /process: its calls of the pure steps, its objects
                                            \* (/upload/pdf: its lists after each turn)
    external,                               \* /process: its calls of outside services, in order
                                            \* (/upload/pdf: its readings of the clock)
    saves,                                  \* the calls of save_to_ltm, in order
    callFn, callArgs, callResult,           \* a call of one function: its name, arguments, outcome
    models_loaded, models_loading,          \* plagiarism agent: _models_loaded, _models_loading
    processor, constructed,                 \* its _processor, and the instances constructed so far
    loader, worker,                         \* where its loader thread and its event loop stand
    arrival, lastAnswer, served,            \* its request in hand, the last answer, the requests served
    reported                                \* models_loaded as /health reported it last

varsMerge == <<base, extracted, merged, mergeDone>>
varsNorm == <<metadata, item, item2, normPhase>>
varsSave == <<store, cslMode, saveItem, saveForce, saveCalled, storeBefore>>
varsRequest == <<handler, request, status, layers, response, calls, heap, external, saves>>
varsCall == <<callFn, callArgs, callResult>>
varsPlagiarism ==
    <<models_loaded, models_loading, processor, constructed, loader, worker, arrival, lastAnswer,
      served, reported>>
vars == <<varsMerge, varsNorm, varsSave, varsRequest, varsCall, varsPlagiarism>>

----------------------------------------------------------------------------
(* Python values *)

None == [t |-> "none"]
Str(s) == [t |-> "str", v |-> s]
Num(n) == [t |-> "int", v |-> n]
List(l) == [t |-> "list", v |-> l]

IsStr(x) == x.t = "str"
IsList(x) == x.t = "list"

\* bool(x)
Truthy(x) ==
    CASE x.t = "none" -> FALSE
      [] x.t = "str" -> Len(x.v) > 0
      [] x.t = "int" -> x.v # 0
      [] x.t = "list" -> Len(x.v) > 0
      [] OTHER -> TRUE

\* a or b
Or(a, b) == IF Truthy(a) THEN a ELSE b

\* A dict is a function from a finite set of key names to values.
EmptyDict == [k \in {} |-> None]

\* d.get(k)
Get(d, k) == IF k \in DOMAIN d THEN d[k] ELSE None

\* d.get(k, default)
GetOr(d, k, default) == IF k \in DOMAIN d THEN d[k] ELSE default

\* d[k] = v on a copy of d
Put(d, k, v) == [x \in DOMAIN d \cup {k} |-> IF x = k THEN v ELSE d[x]]

----------------------------------------------------------------------------
(* Python str, as sequences of characters *)

UpperAscii ==
    <<"A", "B", "C", "D", "E", "F", "G", "H", "I", "J", "K", "L", "M",
      "N", "O", "P", "Q", "R", "S", "T", "U", "V", "W", "X", "Y", "Z">>

LowerAscii ==
    <<"a", "b", "c", "d", "e", "f", "g", "h", "i", "j", "k", "l", "m",
      "n", "o", "p", "q", "r", "s", "t", "u", "v", "w", "x", "y", "z">>

Digits == {"0", "1", "2", "3", "4", "5", "6", "7", "8", "9"}

IsUpperAscii(c) == \E i \in 1..26 : UpperAscii[i] = c
IsLowerAscii(c) == \E i \in 1..26 : LowerAscii[i] = c

\* Folding of A-Z alone.
AsciiLowerChar(c) ==
    IF IsUpperAscii(c)
    THEN LowerAscii[CHOOSE i \in 1..26 : UpperAscii[i] = c]
    ELSE c

\* str.lower() of one character: Unicode-aware, so it also folds
\* U+00C9 (capital E acute) to U+00E9.
PyLowerChar(c) == IF c = "U+00C9" THEN "U+00E9" ELSE AsciiLowerChar(c)

\* s.lower()
lower(s) == [i \in 1..Len(s) |-> PyLowerChar(s[i])]

\* Python whitespace: what str.strip() removes and the regex class \s matches.
IsSpace(c) == c \in {" ", "TAB"}

RECURSIVE lstrip(_)
lstrip(s) == IF Len(s) > 0 /\ IsSpace(s[1]) THEN lstrip(Tail(s)) ELSE s

RECURSIVE rstrip(_)
rstrip(s) ==
    IF Len(s) > 0 /\ IsSpace(s[Len(s)]) THEN rstrip(SubSeq(s, 1, Len(s) - 1)) ELSE s

\* s.strip()
strip(s) == rstrip(lstrip(s))

\* s.startswith(p)
startswith(s, p) == Len(s) >= Len(p) /\ SubSeq(s, 1, Len(p)) = p

\* s.find(p) + 1: the place of the first occurrence of p in s, 0 when none.
find(s, p) ==
    LET hits == {i \in 1..(Len(s) - Len(p) + 1) : SubSeq(s, i, i + Len(p) - 1) = p}
    IN IF hits = {} THEN 0 ELSE CHOOSE i \in hits : \A j \in hits : i <= j

\* s.replace(old, "", 1)
replace_first(s, old) ==
    LET i == find(s, old)
    IN IF i = 0 THEN s ELSE SubSeq(s, 1, i - 1) \o SubSeq(s, i + Len(old), Len(s))

\* s.split(sep, 1)[-1]
split_last(s, sep) ==
    LET i == find(s, sep)
    IN IF i = 0 THEN s ELSE SubSeq(s, i + Len(sep), Len(s))

\* re.split of s on the single characters of seps: the segments between them.
RECURSIVE re_split(_, _)
re_split(s, seps) ==
    LET hits == {i \in 1..Len(s) : s[i] \in seps}
    IN IF hits = {}
       THEN <<s>>
       ELSE LET i == CHOOSE x \in hits : \A y \in hits : x <= y
            IN <<SubSeq(s, 1, i - 1)>> \o re_split(SubSeq(s, i + 1, Len(s)), seps)

\* [f(x) for x in l if x.strip()] with f = strip
RECURSIVE strip_nonblank(_)
strip_nonblank(l) ==
    IF l = <<>> THEN <<>>
    ELSE IF Len(strip(l[1])) > 0
         THEN <<strip(l[1])>> \o strip_nonblank(Tail(l))
         ELSE strip_nonblank(Tail(l))

s_doi == <<"d", "o", "i", ":">>
s_DOI == <<"D", "O", "I", ":">>
s_doi_org == <<"d", "o", "i", ".", "o", "r", "g", "/">>
s_http == <<"h", "t", "t", "p", ":", "/", "/">>
s_https == <<"h", "t", "t", "p", "s", ":", "/", "/">>

----------------------------------------------------------------------------
(* engine.py: _split_authors, normalize_metadata *)

\* parts = [p.strip() for p in re.split(r"[;,]", author_str) if p.strip()]
\* return parts if parts else [author_str.strip()]
_split_authors(author_str) ==
    IF Len(author_str) = 0 THEN <<>>
    ELSE LET parts == strip_nonblank(re_split(author_str, {";", ","}))
         IN IF Len(parts) > 0 THEN parts ELSE <<strip(author_str)>>

\* The DOI branch for a non-empty str (lines 19-26): the prefix test folds
\* case, the two replace calls and the split do not.
normalize_doi(doi) ==
    LET d0 == strip(doi)
        d1 == IF \/ startswith(lower(d0), s_http \o s_doi_org)
                 \/ startswith(lower(d0), s_https \o s_doi_org)
                 \/ startswith(lower(d0), s_doi)
              THEN LET r == replace_first(replace_first(d0, s_DOI), s_doi)
                   IN IF find(lower(r), s_doi_org) # 0 THEN split_last(r, s_doi_org) ELSE r
              ELSE d0
    IN lower(strip(d1))

UnicodeDashes == {"U+2013", "U+2014", "U+2011"}
DashChars == {"-"} \cup UnicodeDashes

\* The place after the whitespace run of s that starts at i.
RECURSIVE skip_space(_, _)
skip_space(s, i) == IF i <= Len(s) /\ IsSpace(s[i]) THEN skip_space(s, i + 1) ELSE i

\* re.sub(r"\s*[-<en dash><em dash><non-breaking hyphen>]\s*", "-", p):
\* leftmost matches, one dash character each, with the whitespace around it.
RECURSIVE sub_dashes(_)
sub_dashes(p) ==
    IF Len(p) = 0 THEN <<>>
    ELSE LET j == skip_space(p, 1)
         IN IF j <= Len(p) /\ p[j] \in DashChars
            THEN <<"-">> \o sub_dashes(SubSeq(p, skip_space(p, j + 1), Len(p)))
            ELSE <<p[1]>> \o sub_dashes(Tail(p))

normalize_pages(pages) == sub_dashes(strip(pages))

normalize_metadata(md) ==
    LET authors_field == Or(Get(md, "author"), Get(md, "authors"))
        authors == IF IsList(authors_field) THEN authors_field
                   ELSE List(_split_authors(Or(authors_field, Str(<<>>)).v))
        doi == IF IsStr(Get(md, "doi")) /\ Truthy(Get(md, "doi"))
               THEN Str(normalize_doi(md["doi"].v))
               ELSE Get(md, "doi")
        pages == IF IsStr(Get(md, "pages")) /\ Truthy(Get(md, "pages"))
                 THEN Str(normalize_pages(md["pages"].v))
                 ELSE Get(md, "pages")
    IN [title |-> GetOr(md, "title", Str(<<>>)),
        authors |-> authors,
        year |-> Get(md, "year"),
        journal |-> Get(md, "journal"),
        publisher |-> Get(md, "publisher"),
        volume |-> Get(md, "volume"),
        issue |-> Get(md, "issue"),
        pages |-> pages,
        doi |-> doi,
        url |-> Get(md, "url"),
        raw_text |-> Get(md, "raw_text"),
        source_type |-> Get(md, "source_type")]

----------------------------------------------------------------------------
(* engine.py: extract_from_raw_text *)

Min(S) == CHOOSE x \in S : \A y \in S : x <= y

IsDigit(c) == c \in Digits

\* The regex class \w: letters (accented ones too), digits and the underscore.
IsWordChar(c) ==
    IsUpperAscii(c) \/ IsLowerAscii(c) \/ IsDigit(c) \/ c \in {"_", "U+00C9", "U+00E9"}

\* The class [-._;()/:A-Z0-9] under re.I.
IsDoiChar(c) ==
    IsUpperAscii(c) \/ IsLowerAscii(c) \/ IsDigit(c)
        \/ c \in {"-", ".", "_", ";", "(", ")", "/", ":"}

\* s[i:i+len(p)] == p
at(s, i, p) == i >= 1 /\ i + Len(p) - 1 <= Len(s) /\ SubSeq(s, i, i + Len(p) - 1) = p

NotSpace(c) == ~IsSpace(c)

\* Membership in the regex classes \d, [-._;()/:A-Z0-9] and \S.
InClass(c, cls) ==
    CASE cls = "d" -> IsDigit(c)
      [] cls = "doi" -> IsDoiChar(c)
      [] cls = "S" -> NotSpace(c)

\* The place after the run of characters of class cls that starts at i.
RunEnd(s, i, cls) ==
    LET stops == {j \in i..Len(s) : ~InClass(s[j], cls)}
    IN IF stops = {} THEN Len(s) + 1 ELSE Min(stops)

\* A regex word boundary \b between s[i-1] and s[i].
WordBoundary(s, i) ==
    (i >= 2 /\ i - 1 <= Len(s) /\ IsWordChar(s[i - 1]))
        # (i >= 1 /\ i <= Len(s) /\ IsWordChar(s[i]))

AllDigits(s, i, n) == i + n - 1 <= Len(s) /\ \A k \in i..(i + n - 1) : IsDigit(s[k])

\* re.search(r"10\.\d{4,9}/[-._;()/:A-Z0-9]+", raw, re.I): the match, or None.
search_doi(raw) ==
    LET DigitsEnd(i) == RunEnd(raw, i + 3, "d")
        starts == {i \in 1..Len(raw) :
                    /\ at(raw, i, <<"1", "0", ".">>)
                    /\ DigitsEnd(i) - (i + 3) \in 4..9
                    /\ at(raw, DigitsEnd(i), <<"/">>)
                    /\ DigitsEnd(i) + 1 <= Len(raw)
                    /\ IsDoiChar(raw[DigitsEnd(i) + 1])}
    IN IF starts = {} THEN None
       ELSE LET i == Min(starts)
            IN Str(SubSeq(raw, i, RunEnd(raw, DigitsEnd(i) + 1, "doi") - 1))

\* re.search(r"https?://\S+", raw): the match, or None.
search_url(raw) ==
    LET SchemeLen(i) == IF at(raw, i, s_http) THEN Len(s_http)
                        ELSE IF at(raw, i, s_https) THEN Len(s_https) ELSE 0
        starts == {i \in 1..Len(raw) :
                    /\ SchemeLen(i) > 0
                    /\ i + SchemeLen(i) <= Len(raw)
                    /\ NotSpace(raw[i + SchemeLen(i)])}
    IN IF starts = {} THEN None
       ELSE LET i == Min(starts)
            IN Str(SubSeq(raw, i, RunEnd(raw, i + SchemeLen(i), "S") - 1))

\* re.search(r"\((\d{4})\)|\b(\d{4})\b", raw): group(1) or group(2) of the
\* leftmost match, or None. The two alternatives never start at one place.
search_year(raw) ==
    LET Paren(i) == at(raw, i, <<"(">>) /\ AllDigits(raw, i + 1, 4) /\ at(raw, i + 5, <<")">>)
        Bare(i) == AllDigits(raw, i, 4) /\ WordBoundary(raw, i) /\ WordBoundary(raw, i + 4)
        starts == {i \in 1..Len(raw) : Paren(i) \/ Bare(i)}
    IN IF starts = {} THEN None
       ELSE LET i == Min(starts)
            IN IF Paren(i) THEN Str(SubSeq(raw, i + 1, i + 4)) ELSE Str(SubSeq(raw, i, i + 3))

\* The four quote pairs of the title pattern, in the order of its alternatives:
\* straight double, curly double, curly single, straight single.
QuotePairs ==
    <<<<"QUOT", "QUOT">>, <<"U+201C", "U+201D">>, <<"U+2018", "U+2019">>, <<"APOS", "APOS">>>>

\* The group of the quoted span that opens at i with pair q: at least three
\* characters other than the closing quote, then the closing quote.
QuotedAt(raw, i, q) ==
    LET closes == {j \in (i + 1)..Len(raw) : raw[j] = QuotePairs[q][2]}
    IN IF raw[i] = QuotePairs[q][1] /\ closes # {} /\ Min(closes) - i - 1 >= 3
       THEN SubSeq(raw, i + 1, Min(closes) - 1)
       ELSE <<>>

\* re.search of the title pattern and the loop over its groups: the first
\* non-empty group of the leftmost match, or None.
search_title(raw) ==
    LET starts == {i \in 1..Len(raw) : \E q \in 1..4 : QuotedAt(raw, i, q) # <<>>}
    IN IF starts = {} THEN None
       ELSE LET i == Min(starts)
                q == Min({x \in 1..4 : QuotedAt(raw, i, x) # <<>>})
            IN Str(QuotedAt(raw, i, q))

\* re.split(r"\s+", s): the pieces between the whitespace runs of s (empty
\* pieces at the ends included).
RECURSIVE split_ws(_)
split_ws(s) ==
    LET hits == {i \in 1..Len(s) : IsSpace(s[i])}
    IN IF hits = {} THEN <<s>>
       ELSE LET i == Min(hits)
            IN <<SubSeq(s, 1, i - 1)>> \o split_ws(SubSeq(s, skip_space(s, i), Len(s)))

\* [w for w in l if w]
RECURSIVE nonempty(_)
nonempty(l) ==
    IF l = <<>> THEN <<>>
    ELSE IF Len(l[1]) > 0 THEN <<l[1]>> \o nonempty(Tail(l)) ELSE nonempty(Tail(l))

\* s.strip(chars)
RECURSIVE strip_chars(_, _)
strip_chars(s, chars) ==
    IF Len(s) > 0 /\ s[1] \in chars THEN strip_chars(Tail(s), chars)
    ELSE IF Len(s) > 0 /\ s[Len(s)] \in chars
         THEN strip_chars(SubSeq(s, 1, Len(s) - 1), chars)
         ELSE s

STOP ==
    {<<"j", "o", "u", "r", "n", "a", "l">>, <<"p", "r", "o", "c", ".">>,
     <<"p", "r", "o", "c", "e", "e", "d", "i", "n", "g", "s">>,
     <<"a", "l", "g", "e", "b", "r", "a">>, <<"m", "a", "t", "h">>,
     <<"m", "a", "t", "h", ".">>, <<"a", "p", "p", "l", ".">>,
     <<"a", "p", "p", "l", "i", "e", "d">>, <<"p", "u", "r", "e">>,
     <<"t", "r", "a", "n", "s", "a", "c", "t", "i", "o", "n", "s">>,
     <<"a", "n", "n", ".">>, <<"s", "o", "c", ".">>,
     <<"s", "o", "c", "i", "e", "t", "y">>, <<"f", "o", "r", "u", "m">>}

\* re.search(r"\bJ\.?\s*[A-Z]", s)
search_J(s) ==
    \E i \in 1..Len(s) :
        /\ s[i] = "J"
        /\ WordBoundary(s, i)
        /\ LET j == skip_space(s, IF at(s, i + 1, <<".">>) THEN i + 2 ELSE i + 1)
           IN j <= Len(s) /\ IsUpperAscii(s[j])

\* any(t.strip(".,()[]") in STOP for t in re.split(r"\s+", s.lower()))
has_stop_token(s) ==
    LET toks == split_ws(lower(s))
    IN \E k \in 1..Len(toks) : strip_chars(toks[k], {".", ",", "(", ")", "[", "]"}) \in STOP

\* re.search(r"\b\d+\s*\(\d{4}\)\b", s): the closing \b asks for a word
\* character right after the parenthesis.
search_vol_year(s) ==
    \E i \in 1..Len(s) :
        /\ IsDigit(s[i])
        /\ WordBoundary(s, i)
        /\ LET j == skip_space(s, RunEnd(s, i, "d"))
           IN /\ at(s, j, <<"(">>)
              /\ AllDigits(s, j + 1, 4)
              /\ at(s, j + 5, <<")">>)
              /\ WordBoundary(s, j + 6)

is_journalish(s) == search_J(s) \/ search_vol_year(s) \/ has_stop_token(s)

is_titleish(s) ==
    LET words == nonempty(split_ws(s))
        lowers == Cardinality({k \in 1..Len(words) : IsLowerAscii(words[k][1])})
        third == Len(words) \div 3
    IN Len(words) >= 3 /\ lowers >= (IF third > 2 THEN third ELSE 2)

\* The loop over segs (lines 89-96): the segments kept as author segments and
\* the title candidate (<<>> when none), stopping at the first journal-like or
\* title-like segment.
RECURSIVE scan_segs(_, _)
scan_segs(segs, author_segments) ==
    IF segs = <<>> \/ is_journalish(segs[1])
    THEN [authors |-> author_segments, title |-> <<>>]
    ELSE IF is_titleish(segs[1])
         THEN [authors |-> author_segments, title |-> segs[1]]
         ELSE scan_segs(Tail(segs), Append(author_segments, segs[1]))

\* ", ".join(l)
RECURSIVE join_comma(_)
join_comma(l) ==
    IF l = <<>> THEN <<>>
    ELSE IF Len(l) = 1 THEN l[1]
         ELSE l[1] \o <<",", " ">> \o join_comma(Tail(l))

s_and == <<" ", "a", "n", "d", " ">>

\* re.split(r";|,| and ", s)
RECURSIVE split_names(_)
split_names(s) ==
    LET SepLen(i) == IF s[i] \in {";", ","} THEN 1
                     ELSE IF at(s, i, s_and) THEN Len(s_and) ELSE 0
        hits == {i \in 1..Len(s) : SepLen(i) > 0}
    IN IF hits = {} THEN <<s>>
       ELSE LET i == Min(hits)
            IN <<SubSeq(s, 1, i - 1)>> \o split_names(SubSeq(s, i + SepLen(i), Len(s)))

\* The filter of lines 101-108 followed by list(dict.fromkeys(filtered)):
\* candidates of two words or more that are not journal-like, without repeats.
RECURSIVE filter_names(_, _)
filter_names(cands, kept) ==
    IF cands = <<>> THEN kept
    ELSE LET c == cands[1]
             keep == /\ ~is_journalish(c)
                     /\ Len(nonempty(split_ws(lower(c)))) >= 2
                     /\ \A k \in 1..Len(kept) : kept[k] # c
         IN filter_names(Tail(cands), IF keep THEN Append(kept, c) ELSE kept)

\* The fallback branch (lines 71-110), taken when no quoted title was found:
\* the keys it adds.
extract_fallback(raw) ==
    LET segs == strip_nonblank(re_split(raw, {","}))
        scan == scan_segs(segs, <<>>)
        filtered == filter_names(strip_nonblank(split_names(join_comma(scan.authors))), <<>>)
        t == IF Len(scan.title) > 0
             THEN ("title" :> Str(strip_chars(strip(scan.title), {" ", "."})))
             ELSE EmptyDict
        a == IF Len(filtered) > 0 THEN ("authors" :> List(filtered)) ELSE EmptyDict
    IN t @@ a

\* extract_from_raw_text(raw) for raw a str or None.
extract_from_raw_text(raw) ==
    IF ~Truthy(raw) THEN EmptyDict
    ELSE LET r == raw.v
             y == IF search_year(r) # None THEN ("year" :> search_year(r)) ELSE EmptyDict
             t == IF search_title(r) # None
                  THEN ("title" :> search_title(r))
                  ELSE extract_fallback(r)
         IN ("doi" :> search_doi(r)) @@ ("url" :> search_url(r)) @@ y @@ t

----------------------------------------------------------------------------
(* engine.py: merge_metadata *)

\* A merge whose loop copies every truthy incoming value, filled field or not.
merge_overwrite(b, e) ==
    [k \in DOMAIN b \cup {x \in DOMAIN e : Truthy(e[x])} |->
        IF k \in DOMAIN e /\ Truthy(e[k]) THEN e[k] ELSE b[k]]

\* A merge whose loop drops the test of the incoming value.
merge_copy_falsy(b, e) ==
    [k \in DOMAIN b \cup {x \in DOMAIN e : ~Truthy(Get(b, x))} |->
        IF k \in DOMAIN e /\ ~Truthy(Get(b, k)) THEN e[k] ELSE b[k]]

\* merged = dict(base); for k, v in extracted.items():
\*     if not merged.get(k) and v: merged[k] = v
\* Keys are distinct, so the order of the loop does not matter.
merge_metadata(b, e) ==
    [k \in DOMAIN b \cup {x \in DOMAIN e : ~Truthy(Get(b, x)) /\ Truthy(e[x])} |->
        IF k \in DOMAIN e /\ ~Truthy(Get(b, k)) /\ Truthy(e[k]) THEN e[k] ELSE b[k]]

----------------------------------------------------------------------------
(* csl_engine.py: format_with_csl *)

DigitChars == <<"0", "1", "2", "3", "4", "5", "6", "7", "8", "9">>

\* int(s) for a str of digits
RECURSIVE str_int(_)
str_int(s) ==
    IF s = <<>> THEN 0
    ELSE 10 * str_int(SubSeq(s, 1, Len(s) - 1))
            + (CHOOSE d \in 0..9 : DigitChars[d + 1] = s[Len(s)])

\* str(n) for an int n >= 0
RECURSIVE int_str(_)
int_str(n) ==
    IF n < 10 THEN <<DigitChars[n + 1]>>
    ELSE int_str(n \div 10) \o <<DigitChars[(n % 10) + 1]>>

\* str(x) of a str or an int
py_str(x) == IF IsStr(x) THEN x.v ELSE int_str(x.v)

\* sep.join(l)
RECURSIVE join(_, _)
join(sep, l) ==
    IF l = <<>> THEN <<>>
    ELSE IF Len(l) = 1 THEN l[1]
         ELSE l[1] \o sep \o join(sep, Tail(l))

\* s.replace(old, "")
RECURSIVE replace_all(_, _)
replace_all(s, old) ==
    IF find(s, old) = 0 THEN s
    ELSE SubSeq(s, 1, find(s, old) - 1)
            \o replace_all(SubSeq(s, find(s, old) + Len(old), Len(s)), old)

s_Unknown == <<"U", "n", "k", "n", "o", "w", "n">>
s_nd == <<"n", ".", "d", ".">>
s_Untitled == <<"U", "n", "t", "i", "t", "l", "e", "d">>
s_APA == <<"A", "P", "A">>

\* str(x or "").strip()
str_or_empty(x) == IF Truthy(x) THEN strip(py_str(x)) ELSE <<>>

\* The manual concatenation of the except branch (lines 114-144); joining
\* authors that are one str joins its characters.
manual_format(it) ==
    LET authors == IF Truthy(Get(it, "authors"))
                   THEN IF IsStr(Get(it, "authors"))
                        THEN [k \in 1..Len(Get(it, "authors").v) |-> <<Get(it, "authors").v[k]>>]
                        ELSE Get(it, "authors").v
                   ELSE IF Truthy(Get(it, "author")) THEN <<Get(it, "author").v>> ELSE <<>>
        author_str == IF Len(authors) > 0 THEN join(<<",", " ">>, authors) ELSE s_Unknown
        year == IF Truthy(Get(it, "year")) THEN py_str(Get(it, "year")) ELSE s_nd
        title == str_or_empty(Get(it, "title"))
        journal == str_or_empty(Or(Get(it, "journal"), Get(it, "publisher")))
        vol == str_or_empty(Get(it, "volume"))
        iss == str_or_empty(Get(it, "issue"))
        pages == str_or_empty(Get(it, "pages"))
        vol_iss == vol \o (IF Len(iss) > 0 THEN <<"(">> \o iss \o <<")">> ELSE <<>>)
        tail == IF Truthy(Get(it, "doi"))
                THEN s_https \o s_doi_org
                        \o strip(replace_all(py_str(Get(it, "doi")), s_https \o s_doi_org))
                ELSE IF Truthy(Get(it, "url")) THEN py_str(Get(it, "url")) ELSE <<>>
    IN join(<<".", " ">>, nonempty(<<author_str, year, title, journal, vol_iss, pages, tail>>))

\* The except branch raises on a title, journal or publisher that is truthy
\* and not a str (.strip()), and on authors or a last piece that join rejects.
manual_format_raises(it) ==
    \/ Truthy(Get(it, "authors")) /\ Get(it, "authors").t = "int"
    \/ ~Truthy(Get(it, "authors")) /\ Truthy(Get(it, "author")) /\ ~IsStr(Get(it, "author"))
    \/ Truthy(Get(it, "title")) /\ ~IsStr(Get(it, "title"))
    \/ Truthy(Or(Get(it, "journal"), Get(it, "publisher")))
            /\ ~IsStr(Or(Get(it, "journal"), Get(it, "publisher")))
    \/ ~Truthy(Get(it, "doi")) /\ Truthy(Get(it, "url")) /\ ~IsStr(Get(it, "url"))

\* map_to_csl_json raises on a source_type that is truthy and not a str
\* (.lower()) and on authors that cannot be iterated.
map_to_csl_json_raises(it, source_type) ==
    \/ Truthy(source_type) /\ ~IsStr(source_type)
    \/ Truthy(Get(it, "authors")) /\ Get(it, "authors").t = "int"

\* What the third-party engine and the style files do is fixed outside the
\* source: "missing" (citeproc not installed or no style file: lines 97-102
\* raise), "renders" (a bibliography entry comes back), "empty" (the engine
\* returns no entry) and "raises" (the engine fails inside the try).
CslModes == {"missing", "renders", "empty", "raises"}

s_rendered == <<"[", "C", "S", "L", "]">>

\* format_with_csl(style, item, source_type): [raised |-> BOOLEAN, text |-> str].
\* Whatever fails inside the try, the mapping to CSL-JSON included, ends in
\* the manual concatenation.
format_with_csl(mode, it, source_type) ==
    IF mode = "missing" THEN [raised |-> TRUE, text |-> <<>>]
    ELSE IF mode = "renders" /\ ~map_to_csl_json_raises(it, source_type)
    THEN [raised |-> FALSE, text |-> s_rendered]
    ELSE IF mode = "empty" /\ ~map_to_csl_json_raises(it, source_type)
    THEN [raised |-> FALSE, text |-> <<>>]
    ELSE IF manual_format_raises(it) THEN [raised |-> TRUE, text |-> <<>>]
    ELSE [raised |-> FALSE, text |-> manual_format(it)]

----------------------------------------------------------------------------
(* ltm.py: the citations table; engine.py: save_to_ltm *)

\* SQLite's TRIM(X) removes the space character only.
RECURSIVE sql_trim(_)
sql_trim(s) ==
    IF Len(s) > 0 /\ s[1] = " " THEN sql_trim(Tail(s))
    ELSE IF Len(s) > 0 /\ s[Len(s)] = " " THEN sql_trim(SubSeq(s, 1, Len(s) - 1))
         ELSE s

\* SQLite's LOWER(X) folds the ASCII letters only.
sql_lower(s) == [i \in 1..Len(s) |-> AsciiLowerChar(s[i])]

\* A value bound to a TEXT column: None is NULL, an int is stored as its text.
sql_text(x) == IF x = None THEN None ELSE Str(py_str(x))

\* SELECT 1 FROM citations WHERE LOWER(TRIM(col)) = ? LIMIT 1 (NULL never
\* compares equal).
sql_match(rows, col, norm) ==
    \E i \in 1..Len(rows) :
        rows[i][col] # None /\ sql_lower(sql_trim(rows[i][col].v)) = norm

\* exists_duplicate raises when a truthy doi or title is not a str ((doi or
\* "").strip()); the title is looked at only when the doi did not match.
exists_duplicate_raises(rows, doi, title) ==
    \/ Truthy(doi) /\ ~IsStr(doi)
    \/ /\ ~(Truthy(doi) /\ sql_match(rows, "doi", lower(strip(doi.v))))
       /\ Truthy(title) /\ ~IsStr(title)

exists_duplicate(rows, doi, title) ==
    \/ Truthy(doi) /\ sql_match(rows, "doi", lower(strip(doi.v)))
    \/ Truthy(title) /\ sql_match(rows, "title", lower(strip(title.v)))

\* The fallback text of lines 286-302.
save_fallback(it) ==
    LET raw == str_or_empty(Get(it, "raw_text"))
        title == strip(IF Truthy(Get(it, "title")) THEN py_str(Get(it, "title")) ELSE s_Untitled)
        year == IF Truthy(Get(it, "year")) THEN py_str(Get(it, "year")) ELSE s_nd
        journal == str_or_empty(Or(Get(it, "journal"), Get(it, "publisher")))
        doi == str_or_empty(Get(it, "doi"))
        pieces == <<title>>
            \o (IF Len(year) > 0 /\ year # s_nd THEN <<<<"(">> \o year \o <<")">>>> ELSE <<>>)
            \o (IF Len(journal) > 0 THEN <<journal>> ELSE <<>>)
            \o (IF Len(doi) > 0 THEN <<<<"D", "O", "I", ":", " ">> \o doi>> ELSE <<>>)
    IN IF Len(raw) > 0 THEN raw ELSE join(<<" ", "U+2014", " ">>, pieces)

\* save_citation: the row appended by the INSERT. The metadata and authors
\* columns hold JSON text, modelled by the value the text encodes.
save_citation(rows, it, style, formatted, user_id) ==
    Append(rows, [doi |-> sql_text(Get(it, "doi")),
                  title |-> sql_text(Get(it, "title")),
                  authors |-> Or(Get(it, "authors"), List(<<>>)),
                  style |-> style,
                  formatted |-> formatted,
                  metadata |-> it,
                  user_id |-> user_id])

\* A save that lost the guard of line 267.
save_unguarded(it) == TRUE

\* The guard of line 267: a non-blank title, or a doi, url or raw_text.
persistable(it) ==
    \/ Truthy(Get(it, "title")) /\ Len(strip(py_str(Get(it, "title")))) > 0
    \/ Truthy(Get(it, "doi"))
    \/ Truthy(Get(it, "url"))
    \/ Truthy(Get(it, "raw_text"))

\* save_to_ltm(item, style, user_id, force_save): the rows afterwards. An
\* exception of the duplicate check is swallowed and the save goes on.
save_to_ltm(rows, mode, it, style, user_id, force_save) ==
    IF ~persistable(it) THEN rows
    ELSE IF /\ ~force_save
            /\ ~exists_duplicate_raises(rows, Get(it, "doi"), Get(it, "title"))
            /\ exists_duplicate(rows, Get(it, "doi"), Get(it, "title"))
         THEN rows
         ELSE LET st == IF Truthy(style) THEN style.v ELSE s_APA
                  csl == format_with_csl(mode, it, None)
                  formatted == IF csl.raised \/ Len(strip(csl.text)) = 0
                               THEN save_fallback(it) ELSE csl.text
              IN save_citation(rows, it, st, formatted, user_id)

----------------------------------------------------------------------------
(* validators.py: what the handlers take from the outside services *)

\* What an outside service gives when the call raises, times out or comes
\* back with an error status.
Failure == [t |-> "failure"]

\* What a service gave whose answer the handler only looks at to log it or to
\* report it.
Answered == [t |-> "answered"]

\* A JSON object, as opposed to any other value.
IsMapping(x) == "t" \notin DOMAIN x

\* fetch_metadata_from_doi(doi): None when the lookup fails (a doi that is not
\* a str fails inside the try), else the mapping built from the registry's
\* answer, with md["doi"] = doi as it was passed.
fetch_metadata_from_doi(doi, answer) ==
    IF ~IsStr(doi) \/ answer = None \/ answer = Failure THEN None
    ELSE ("doi" :> doi) @@ answer

\* search_metadata_bibliographic(query): None for a query of fewer than 40
\* characters once stripped, or when the search fails; else the top result.
search_metadata_bibliographic(query, answer) ==
    IF Len(strip(query)) < 40 THEN None ELSE answer

\* verify_doi_live(doi) for a truthy doi: doi.strip() is outside the try.
verify_doi_live_raises(doi) == ~IsStr(doi)

\* validate raises on a source_type or a title that is truthy and not a str
\* ((source_type or "article").lower(), (item.get("title") or "").strip()).
validate_raises(it, source_type) ==
    \/ Truthy(source_type) /\ ~IsStr(source_type)
    \/ Truthy(Get(it, "title")) /\ ~IsStr(Get(it, "title"))

----------------------------------------------------------------------------
(* engine.py: process_batch_items, detect_duplicates *)

\* isinstance(raw, str), for raw a str or a mapping
IsText(raw) == "t" \in DOMAIN raw /\ raw.t = "str"

\* One turn of the loop of process_batch_items, from the merge of the
\* extraction on: the locals extracted, fetched (None when the registry is
\* not asked or fails) and merged, the record appended.
batch_fetch(raw, answer, extr, mrg) ==
    LET fetched == IF ~IsText(raw) /\ Truthy(Get(mrg, "doi")) /\ ~Truthy(Get(mrg, "title"))
                   THEN fetch_metadata_from_doi(Get(mrg, "doi"), answer)
                   ELSE None
    IN [extracted |-> extr,
        fetched |-> fetched,
        merged |-> IF fetched # None THEN merge_metadata(mrg, fetched) ELSE mrg]

\* md = normalize_metadata(raw) ({} for a str); merged = merge_metadata(md, extracted)
batch_merge(raw, answer, extr) ==
    batch_fetch(raw, answer, extr,
                merge_metadata(normalize_metadata(IF IsText(raw) THEN EmptyDict ELSE raw),
                               extr))

\* One turn of the loop of process_batch_items.
batch_steps(raw, answer) ==
    batch_merge(raw, answer,
                extract_from_raw_text(IF IsText(raw) THEN raw
                                      ELSE Or(Get(raw, "raw_text"), Str(<<>>))))

\* The turns of the loop of process_batch_items, one for each item.
RECURSIVE batch_run(_, _)
batch_run(items, answer) ==
    IF items = <<>> THEN <<>>
    ELSE <<batch_steps(items[1], answer)>> \o batch_run(Tail(items), answer)

\* processed, the list the turns appended to
RECURSIVE batch_processed(_)
batch_processed(run) ==
    IF run = <<>> THEN <<>>
    ELSE <<run[1].merged>> \o batch_processed(Tail(run))

process_batch_items(items, answer) == batch_processed(batch_run(items, answer))

\* What was layered onto the record of one turn: the item as given, no
\* registry search, the DOI lookup, the extraction, no LLM.
batch_layer(raw, steps) ==
    [sources |-> <<IF IsText(raw) THEN EmptyDict ELSE raw,
                   EmptyDict,
                   IF steps.fetched # None THEN steps.fetched ELSE EmptyDict,
                   steps.extracted,
                   EmptyDict>>,
     final |-> steps.merged]

RECURSIVE batch_layers(_, _)
batch_layers(items, run) ==
    IF items = <<>> THEN <<>>
    ELSE <<batch_layer(items[1], run[1])>> \o batch_layers(Tail(items), Tail(run))

\* key = (it.get("doi") or "").lower() or (it.get("title") or "").strip().lower()
duplicate_key(it) ==
    IF Truthy(Get(it, "doi")) THEN lower(Get(it, "doi").v)
    ELSE IF Truthy(Get(it, "title")) THEN lower(strip(Get(it, "title").v))
    ELSE <<>>

\* .lower() and .strip() raise on a truthy value that is not a str.
detect_duplicates_raises(items) ==
    \E i \in 1..Len(items) :
        \/ Truthy(Get(items[i], "doi")) /\ ~IsStr(Get(items[i], "doi"))
        \/ ~Truthy(Get(items[i], "doi")) /\ Truthy(Get(items[i], "title"))
                /\ ~IsStr(Get(items[i], "title"))

\* The loop of detect_duplicates over the items left, seen being the keys of
\* the items kept so far.
RECURSIVE detect_loop(_, _)
detect_loop(items, seen) ==
    IF items = <<>> THEN <<>>
    ELSE IF Len(duplicate_key(items[1])) = 0
         THEN <<items[1]>> \o detect_loop(Tail(items), seen)
         ELSE IF duplicate_key(items[1]) \in seen
              THEN detect_loop(Tail(items), seen)
              ELSE <<items[1]>>
                    \o detect_loop(Tail(items), seen \cup {duplicate_key(items[1])})

detect_duplicates(items) == detect_loop(items, {})

\* for it in items: save_to_ltm(it, style, user_id, force_save), an exception
\* of one save being passed over: the rows afterwards.
\* One call of save_to_ltm on a database whose INSERT fails when db_fails:
\* the exception of save_citation leaves the rows as they were, and a call
\* that returns before the INSERT does not raise.
save_call(rows, mode, it, style, user_id, force_save, db_fails) ==
    [item |-> it,
     raised |-> db_fails /\ save_to_ltm(rows, mode, it, style, user_id, force_save) # rows,
     store |-> IF db_fails THEN rows
               ELSE save_to_ltm(rows, mode, it, style, user_id, force_save)]

\* A handler that has not saved yet: the rows, and no call of save_to_ltm.
save_start(rows) == [store |-> rows, saves |-> <<>>]

\* The rows and the calls of save_to_ltm after one more call, c.
save_turn(st, c) ==
    [store |-> c.store, saves |-> Append(st.saves, [item |-> c.item, raised |-> c.raised])]

\* A loop that the exception of a save ends.
save_rest_aborting(items, c) == IF c.raised THEN <<>> ELSE Tail(items)

\* app.py 423-427 and 693-697: the exception of a save is swallowed inside
\* the turn, and the loop goes on with the next item.
save_rest(items, c) == Tail(items)

\* for it in items: save_to_ltm(it, ...), on a database that fails at the
\* calls whose ordinal is in bad.
RECURSIVE save_each(_, _, _, _, _, _, _)
RECURSIVE save_next(_, _, _, _, _, _, _, _)
save_each(st, mode, items, style, user_id, force_save, bad) ==
    IF items = <<>> THEN st
    ELSE save_next(st, mode, items, style, user_id, force_save, bad,
                   save_call(st.store, mode, items[1], style, user_id, force_save,
                             (Len(st.saves) + 1) \in bad))

save_next(st, mode, items, style, user_id, force_save, bad, c) ==
    save_each(save_turn(st, c), mode, save_rest(items, c), style, user_id, force_save, bad)

\* format_bibliography_with_csl raises when the engine or the style file is
\* missing, when an item cannot be mapped to CSL-JSON (outside its try), and
\* when the concatenation of its except branch fails.
format_bibliography_raises(mode, items) ==
    \/ mode = "missing"
    \/ \E i \in 1..Len(items) : map_to_csl_json_raises(items[i], Get(items[i], "source_type"))
    \/ mode = "raises" /\ \E i \in 1..Len(items) : manual_format_raises(items[i])

----------------------------------------------------------------------------
(* app.py: the /process handler *)

s_article == <<"a", "r", "t", "i", "c", "l", "e">>

\* The mappings a request creates are objects of a heap, a sequence of
\* mappings; an object's reference is its place in the heap.
alloc(h, d) == [heap |-> Append(h, d), ref |-> Len(h) + 1]

\* A copy that hands back the object it was asked to copy.
dict_alias(h, r) == [heap |-> h, ref |-> r]

\* dict(d): a new object with the keys and values of d
dict_copy(h, r) == alloc(h, h[r])

\* d[k] = v
setitem(h, r, k, v) == [h EXCEPT ![r] = Put(@, k, v)]

\* merge_metadata(base, extracted) on objects: line 115 copies base and the
\* loop writes to the copy, which is returned.
merge_objects(h, b, e) ==
    LET c == dict_copy(h, b)
    IN [heap |-> [c.heap EXCEPT ![c.ref] = merge_metadata(@, h[e])], ref |-> c.ref]

\* One call of a pure step: its argument mappings before and after it.
call(fn, args, h, h2) ==
    [fn |-> fn,
     before |-> [i \in 1..Len(args) |-> h[args[i]]],
     after |-> [i \in 1..Len(args) |-> h2[args[i]]]]

\* The locals of process_task that hold mappings, each a reference into the
\* heap (0 while unbound), with the heap and the calls made so far. Object 1
\* of the heap is the request's metadata.
process_frame(req) ==
    [heap |-> <<req.metadata>>, calls |-> <<>>, metadata |-> 1, fetched |-> 0,
     base_item |-> 0, extracted |-> 0, llm_parsed |-> 0, pre_llm_item |-> 0,
     merged_item |-> 0, external |-> <<>>, raised |-> FALSE]

\* one more call of an outside service, and what came back
frame_ask(fr, service, answer) ==
    [fr EXCEPT !.external = Append(@, [service |-> service, answer |-> answer])]

\* local = d, for a mapping d that was just built
frame_bind(fr, local, d) ==
    [fr EXCEPT !.heap = Append(@, d), ![local] = Len(fr.heap) + 1]

\* local = fn(args), the call having led from the heap of fr to object m
frame_call(fr, local, fn, args, m) ==
    [fr EXCEPT !.heap = m.heap, ![local] = m.ref,
               !.calls = Append(@, call(fn, args, fr.heap, m.heap))]

\* local = merge_metadata(b, e)
frame_merge(fr, local, b, e) ==
    frame_call(fr, local, "merge_metadata", <<b, e>>, merge_objects(fr.heap, b, e))

\* lines 109-111: metadata = merge_metadata(metadata, fetched) if fetched
process_fetched(fr, fetched) ==
    IF fetched = None THEN fr
    ELSE frame_merge(frame_bind(fr, "fetched", fetched), "metadata", 1, Len(fr.heap) + 1)

\* lines 108-111; reg is what the registry answers. A doi that is not a str
\* fails before the request is sent.
process_fetch(fr, reg) ==
    IF Truthy(Get(fr.heap[1], "doi")) /\ ~Truthy(Get(fr.heap[1], "title"))
    THEN process_fetched(IF IsStr(Get(fr.heap[1], "doi"))
                         THEN frame_ask(fr, "registry_lookup", reg)
                         ELSE fr,
                         fetch_metadata_from_doi(Get(fr.heap[1], "doi"), reg))
    ELSE fr

\* line 113: base_item = normalize_metadata(metadata)
process_normalize(fr) ==
    frame_call(fr, "base_item", "normalize_metadata", <<fr.metadata>>,
               alloc(fr.heap, normalize_metadata(fr.heap[fr.metadata])))

\* line 114: extracted = extract_from_raw_text(raw_text)
process_extract(fr, req) ==
    frame_bind(fr, "extracted", extract_from_raw_text(req.raw_text))

\* lines 115-151: llm_parsed, llm being what the LLM wrapper returns when
\* asked: the JSON value of its output, {} taking the place of a falsy one
process_llm_parse(fr, req, llm) ==
    IF req.llm_parse /\ Truthy(req.raw_text)
    THEN frame_bind(frame_ask(fr, "llm_wrapper", llm), "llm_parsed",
                    IF llm = Failure \/ (~IsMapping(llm) /\ ~Truthy(llm)) THEN EmptyDict
                    ELSE llm)
    ELSE frame_bind(fr, "llm_parsed", EmptyDict)

\* line 153: pre_llm_item = merge_metadata(base_item, extracted)
process_pre_llm(fr) ==
    frame_merge(fr, "pre_llm_item", fr.base_item, fr.extracted)

\* merged_item = copy
process_copied(fr, copy) ==
    [fr EXCEPT !.heap = copy.heap, !.merged_item = copy.ref]

\* line 154: merged_item = dict(pre_llm_item)
process_copy(fr) == process_copied(fr, dict_copy(fr.heap, fr.pre_llm_item))

\* lines 155-159: merged_item["raw_text"] = raw_text
process_raw_text(fr, req) ==
    IF Truthy(req.raw_text)
    THEN [fr EXCEPT !.heap = setitem(@, fr.merged_item, "raw_text", req.raw_text)]
    ELSE fr

\* lines 161-163: merged_item = merge_metadata(merged_item, llm_parsed), which
\* raises on a value that is no mapping (extracted.items())
process_llm_merge(fr) ==
    IF ~IsMapping(fr.heap[fr.llm_parsed]) THEN [fr EXCEPT !.raised = TRUE]
    ELSE IF DOMAIN fr.heap[fr.llm_parsed] # {}
    THEN frame_merge(fr, "merged_item", fr.merged_item, fr.llm_parsed)
    ELSE fr

\* one more call of a step that builds no mapping
frame_log(fr, fn, args) ==
    [fr EXCEPT !.calls = Append(@, call(fn, args, fr.heap, fr.heap))]

\* What was layered onto the record of /process: the metadata of the request,
\* no registry search, the DOI lookup, the extraction, the LLM.
process_layer(fr) ==
    [sources |-> <<fr.heap[1],
                   EmptyDict,
                   IF fr.fetched # 0 THEN fr.heap[fr.fetched] ELSE EmptyDict,
                   fr.heap[fr.extracted],
                   IF IsMapping(fr.heap[fr.llm_parsed]) THEN fr.heap[fr.llm_parsed]
                   ELSE EmptyDict>>,
     final |-> fr.heap[fr.merged_item]]

\* The outcome of a request that ended in HTTP 500 with the frame fr.
process_failed(rows, fr) ==
    [status |-> 500, store |-> rows, layers |-> <<process_layer(fr)>>,
     response |-> EmptyDict, calls |-> fr.calls, heap |-> fr.heap,
     external |-> fr.external, saves |-> <<>>]

\* lines 250-282: the report with status SUCCESS
process_report(fr, it, saved) ==
    [status |-> 200,
     store |-> saved.store,
     layers |-> <<process_layer(fr)>>,
     response |-> [parsed_metadata |-> it,
                   pre_llm_metadata |-> fr.heap[fr.pre_llm_item]],
     calls |-> fr.calls,
     heap |-> fr.heap,
     external |-> fr.external,
     saves |-> saved.saves]

\* A handler that swallows the exception of its save.
process_save_swallowed(rows, req, fr, it, saved) == process_report(fr, it, saved)

\* lines 247-285: the response once save_to_ltm has returned or raised; the
\* except of line 283 turns the exception of the save into HTTP 500
process_saved(rows, req, fr, it, saved) ==
    IF saved.saves # <<>> /\ saved.saves[1].raised
    THEN [process_failed(rows, fr) EXCEPT !.saves = saved.saves]
    ELSE process_report(fr, it, saved)

\* A handler that saves before it renders, so that the rows of a request
\* whose rendering raises are written all the same.
process_render_saving_first(rows, mode, req, fr, it, db_fails) ==
    IF format_with_csl(mode, it, Str(s_article)).raised
    THEN [process_failed(rows, fr) EXCEPT
            !.store = IF req.save
                      THEN save_call(rows, mode, it, Str(s_APA), req.user_id, req.save_all,
                                     db_fails).store
                      ELSE rows]
    ELSE process_saved(rows, req, frame_log(fr, "format_with_csl", <<fr.merged_item>>), it,
            IF req.save
            THEN save_turn(save_start(rows),
                           save_call(rows, mode, it, Str(s_APA), req.user_id, req.save_all,
                                     db_fails))
            ELSE save_start(rows))

\* lines 245-285: the rendering, the save and the response; db_fails says
\* that the database fails at the INSERT
process_render(rows, mode, req, fr, it, db_fails) ==
    IF format_with_csl(mode, it, Str(s_article)).raised THEN process_failed(rows, fr)
    ELSE process_saved(rows, req, frame_log(fr, "format_with_csl", <<fr.merged_item>>), it,
            IF req.save
            THEN save_turn(save_start(rows),
                           save_call(rows, mode, it, Str(s_APA), req.user_id, req.save_all,
                                     db_fails))
            ELSE save_start(rows))

\* line 181: verify_url(merged_item["url"]); a url that is not a str fails
\* before the request is sent
process_live_url(fr, it, live_fails) ==
    IF Truthy(Get(it, "url")) /\ IsStr(Get(it, "url"))
    THEN frame_ask(fr, "url_live", IF live_fails THEN Failure ELSE Answered)
    ELSE fr

\* lines 178-181: the live checks; live_fails says that the hosts asked do
\* not answer
process_live(fr, it, live_fails) ==
    process_live_url(IF Truthy(Get(it, "doi"))
                     THEN frame_ask(fr, "doi_live", IF live_fails THEN Failure ELSE Answered)
                     ELSE fr,
                     it, live_fails)

\* lines 185-238: the wrapper is asked for style suggestions when llm_parse
\* is set, and whatever fails there is logged
process_suggest(fr, req, llm) ==
    IF req.llm_parse
    THEN frame_ask(fr, "llm_wrapper", IF llm = Failure THEN Failure ELSE Answered)
    ELSE fr

\* lines 177-285: the live checks and validate, which are outside the try,
\* then the style suggestions and the rendering
process_validate(rows, mode, req, fr, it, llm, live_fails, db_fails) ==
    IF Truthy(Get(it, "doi")) /\ verify_doi_live_raises(Get(it, "doi"))
    THEN process_failed(rows, fr)
    ELSE IF validate_raises(it, Str(s_article))
    THEN process_failed(rows, process_live(fr, it, live_fails))
    ELSE process_render(rows, mode, req,
            process_suggest(
                frame_log(process_live(fr, it, live_fails), "validate", <<fr.merged_item>>),
                req, llm),
            it, db_fails)

\* process_task from line 177 on, with the locals of fr
process_respond(rows, mode, req, fr, llm, live_fails, db_fails) ==
    IF fr.raised THEN process_failed(rows, fr)
    ELSE process_validate(rows, mode, req, fr, fr.heap[fr.merged_item], llm, live_fails,
                          db_fails)

\* process_task, from line 107 on, for a request with style and source_type
\* left to their defaults. reg is what the registry answers, llm what the LLM
\* wrapper returns when asked, live_fails and db_fails say that the hosts of
\* the live checks and the database fail.
process_task(rows, mode, req, reg, llm, live_fails, db_fails) ==
    process_respond(rows, mode, req,
        process_llm_merge(
            process_raw_text(
                process_copy(
                    process_pre_llm(
                        process_llm_parse(
                            process_extract(
                                process_normalize(
                                    process_fetch(process_frame(req), reg)),
                                req),
                            req, llm))),
                req)),
        llm, live_fails, db_fails)

----------------------------------------------------------------------------
(* app.py: the /convert handler *)

\* convert, for a request whose body is a task envelope: the item is rendered
\* as it came, without a source_type, and the call of format_with_csl is
\* outside any try, so that its exception ends the request in HTTP 500.
convert(rows, mode, req) ==
    IF format_with_csl(mode, req.metadata, None).raised
    THEN [status |-> 500, store |-> rows, layers |-> <<>>, response |-> EmptyDict,
          calls |-> <<>>, heap |-> <<>>, external |-> <<>>, saves |-> <<>>]
    ELSE [status |-> 200, store |-> rows, layers |-> <<>>,
          response |-> [converted |-> format_with_csl(mode, req.metadata, None).text],
          calls |-> <<>>, heap |-> <<>>, external |-> <<>>, saves |-> <<>>]

----------------------------------------------------------------------------
(* app.py: the /bibliography handler *)

\* bibliography from line 421 on: processed is the list that is rendered and
\* counted, run1 and run2 are the turns of the first and the second run of
\* process_batch_items.
\* lines 429-441: the response, the saves being made
bibliography_saved(req, run1, run2, processed, saved) ==
    [status |-> 200,
     store |-> saved.store,
     layers |-> IF req.save /\ req.save_all
                THEN batch_layers(req.items, run1) \o batch_layers(req.items, run2)
                ELSE batch_layers(req.items, run1),
     response |-> [count |-> Len(processed)],
     calls |-> <<>>,
     heap |-> <<>>,
     external |-> <<>>,
     saves |-> saved.saves]

\* bibliography from line 421 on; bad are the calls of save_to_ltm at which
\* the database fails.
bibliography_respond(rows, mode, req, run1, run2, processed, bad) ==
    IF format_bibliography_raises(mode, processed)
    THEN [status |-> 500, store |-> rows, layers |-> batch_layers(req.items, run1),
          response |-> EmptyDict, calls |-> <<>>, heap |-> <<>>, external |-> <<>>,
          saves |-> <<>>]
    ELSE bibliography_saved(req, run1, run2, processed,
            IF req.save
            THEN save_each(save_start(rows), mode,
                           IF req.save_all THEN batch_processed(run2) ELSE processed,
                           Str(s_APA), req.user_id, req.save_all, bad)
            ELSE save_start(rows))

\* lines 419-420: processed = detect_duplicates(processed) if remove_dups
bibliography_dedup(rows, mode, req, run1, run2, all, bad) ==
    IF req.remove_duplicates /\ detect_duplicates_raises(all)
    THEN [status |-> 500, store |-> rows, layers |-> batch_layers(req.items, run1),
          response |-> EmptyDict, calls |-> <<>>, heap |-> <<>>, external |-> <<>>,
          saves |-> <<>>]
    ELSE bibliography_respond(rows, mode, req, run1, run2,
                              IF req.remove_duplicates THEN detect_duplicates(all) ELSE all,
                              bad)

\* bibliography from line 419 on
bibliography_runs(rows, mode, req, run1, run2, bad) ==
    bibliography_dedup(rows, mode, req, run1, run2, batch_processed(run1), bad)

\* bibliography, for a request with style left to its default. answer1 and
\* answer2 are what the registry answers during the first and the second run
\* of process_batch_items, and bad the calls of save_to_ltm at which the
\* database fails.
bibliography(rows, mode, req, answer1, answer2, bad) ==
    bibliography_runs(rows, mode, req,
                      batch_run(req.items, answer1), batch_run(req.items, answer2), bad)

----------------------------------------------------------------------------
(* validators.py: doi_syntax_is_valid; engine.py: validate and its errors *)

\* DOI_REGEX.match(s): ^10\.\d{4,9}/[-._;()/:A-Z0-9]+$ with re.IGNORECASE
doi_regex_match(s) ==
    /\ at(s, 1, <<"1", "0", ".">>)
    /\ \E n \in 4..9 :
        /\ AllDigits(s, 4, n)
        /\ at(s, 4 + n, <<"/">>)
        /\ Len(s) > 4 + n
        /\ \A k \in (5 + n)..Len(s) : IsDoiChar(s[k])

\* s.split(p, 1)[-1]
after_first(s, p) ==
    IF find(s, p) = 0 THEN s ELSE SubSeq(s, find(s, p) + Len(p), Len(s))

\* A DOI checked as it is written, a URL form included.
doi_unstripped(d) == d

\* lines 19-21: the part after "doi.org/" of a DOI that starts, in any case,
\* with http://doi.org/ or https://doi.org/
doi_bare(d) ==
    IF \/ startswith(lower(d), s_http \o s_doi_org)
       \/ startswith(lower(d), s_https \o s_doi_org)
    THEN after_first(d, s_doi_org)
    ELSE d

\* doi_syntax_is_valid(doi), for doi a str
doi_syntax_is_valid(doi) ==
    IF Len(doi) = 0 THEN FALSE ELSE doi_regex_match(doi_bare(strip(doi)))

\* The digits of a str that int() accepts once it is stripped and its sign
\* is taken off: digits, single underscores allowed between them.
int_digits_ok(s) ==
    /\ Len(s) > 0
    /\ IsDigit(s[1])
    /\ IsDigit(s[Len(s)])
    /\ \A k \in 1..Len(s) : IsDigit(s[k]) \/ s[k] = "_"
    /\ \A k \in 1..(Len(s) - 1) : ~(s[k] = "_" /\ s[k + 1] = "_")

RECURSIVE only_digits(_)
only_digits(s) ==
    IF s = <<>> THEN <<>>
    ELSE IF IsDigit(s[1]) THEN <<s[1]>> \o only_digits(Tail(s))
         ELSE only_digits(Tail(s))

\* int(s) for s a stripped str: whether it is accepted, and the number
int_of_text(s) ==
    IF Len(s) > 0 /\ s[1] \in {"+", "-"}
    THEN [ok |-> int_digits_ok(Tail(s)),
          v |-> IF int_digits_ok(Tail(s))
                THEN (IF s[1] = "-" THEN 0 - str_int(only_digits(s)) ELSE str_int(only_digits(s)))
                ELSE 0]
    ELSE [ok |-> int_digits_ok(s),
          v |-> IF int_digits_ok(s) THEN str_int(only_digits(s)) ELSE 0]

\* int(x): ok is FALSE when int raises
py_int(x) ==
    IF x.t = "int" THEN [ok |-> TRUE, v |-> x.v]
    ELSE IF IsStr(x) THEN int_of_text(strip(x.v))
    ELSE [ok |-> FALSE, v |-> 0]

\* A loop over the required fields that stops at the first one it reports.
missing_first_only(it) ==
    IF ~Truthy(Get(it, "year")) THEN <<"Missing required field: year">>
    ELSE IF ~Truthy(Get(it, "title")) THEN <<"Missing required field: title">>
    ELSE <<>>

\* lines 125-128
missing_required(it) ==
    (IF ~Truthy(Get(it, "title")) THEN <<"Missing required field: title">> ELSE <<>>)
        \o (IF ~Truthy(Get(it, "year")) THEN <<"Missing required field: year">> ELSE <<>>)

\* lines 143-148
doi_errors(it) ==
    IF Truthy(Get(it, "doi")) /\ ~doi_syntax_is_valid(strip(py_str(Get(it, "doi"))))
    THEN <<"Invalid DOI syntax.">>
    ELSE <<>>

\* lines 151-154: re.match(r"^https?://", url, re.IGNORECASE)
url_errors(it) ==
    IF /\ Truthy(Get(it, "url"))
       /\ ~startswith(lower(strip(py_str(Get(it, "url")))), s_http)
       /\ ~startswith(lower(strip(py_str(Get(it, "url")))), s_https)
    THEN <<"URL must start with http:// or https://">>
    ELSE <<>>

\* A range check that leaves the two ends out.
year_in_open_range(y) == y > 1500 /\ y < 2100

\* not (y < 1500 or y > 2100)
year_in_range(y) == ~(y < 1500 \/ y > 2100)

\* lines 165-171 (the message of line 169 has an en dash for the hyphen)
year_errors(it) ==
    IF ~Truthy(Get(it, "year")) THEN <<>>
    ELSE IF ~py_int(Get(it, "year")).ok THEN <<"Year must be numeric.">>
    ELSE IF ~year_in_range(py_int(Get(it, "year")).v)
         THEN <<"Year looks out of plausible range (1500-2100).">>
         ELSE <<>>

\* errors, the first list validate returns
validate_errors(it) ==
    missing_required(it) \o doi_errors(it) \o url_errors(it) \o year_errors(it)

\* validate(item, source_type, style): whether it raises (line 188 strips
\* the style), and its errors
validate(it, source_type, style) ==
    IF validate_raises(it, source_type) \/ (Truthy(style) /\ ~IsStr(style))
    THEN [raised |-> TRUE, errors |-> <<>>]
    ELSE [raised |-> FALSE, errors |-> validate_errors(it)]

----------------------------------------------------------------------------
(* app.py: the /upload/pdf handler *)

\* re.sub(r"\s+", " ", s)
RECURSIVE collapse_ws(_)
collapse_ws(s) ==
    IF s = <<>> THEN <<>>
    ELSE IF IsSpace(s[1])
         THEN <<" ">> \o collapse_ws(SubSeq(s, skip_space(s, 1), Len(s)))
         ELSE <<s[1]>> \o collapse_ws(Tail(s))

\* i[k] = re.sub(r"\s+", " ", v).strip().strip(" .,") when i.get(k) is a str
clean_field(i, k) ==
    IF IsStr(Get(i, k))
    THEN Put(i, k, Str(strip_chars(strip(collapse_ws(i[k].v)), {" ", ".", ","})))
    ELSE i

\* _looks_journalish of lines 616-621
_looks_journalish(name) == search_J(name) \/ has_stop_token(name)

\* [re.sub(r"\s+", " ", (a or "")).strip() for a in authors if a]
RECURSIVE clean_authors(_)
clean_authors(l) ==
    IF l = <<>> THEN <<>>
    ELSE IF Len(l[1]) > 0
         THEN <<strip(collapse_ws(l[1]))>> \o clean_authors(Tail(l))
         ELSE clean_authors(Tail(l))

\* [a for a in l if not _looks_journalish(a)]
RECURSIVE drop_journalish(_)
drop_journalish(l) ==
    IF l = <<>> THEN <<>>
    ELSE IF _looks_journalish(l[1]) THEN drop_journalish(Tail(l))
         ELSE <<l[1]>> \o drop_journalish(Tail(l))

\* re.search(r"\b(19\d{2}|20\d{2}|21\d{2})\b", raw): int of the match, or None.
search_century_year(raw) ==
    LET starts == {i \in 1..Len(raw) :
                    /\ AllDigits(raw, i, 4)
                    /\ \/ at(raw, i, <<"1", "9">>)
                       \/ at(raw, i, <<"2", "0">>)
                       \/ at(raw, i, <<"2", "1">>)
                    /\ WordBoundary(raw, i)
                    /\ WordBoundary(raw, i + 4)}
    IN IF starts = {} THEN None
       ELSE Num(str_int(SubSeq(raw, Min(starts), Min(starts) + 3)))

s_arxiv == <<"a", "r", "x", "i", "v">>

\* re.search(r"arXiv\s*:\s*([0-9.]+)(?:v\d+)?", raw, re.I): group 1 of the
\* leftmost match, <<>> when there is none.
search_arxiv(raw) ==
    LET IdStart(i) == skip_space(raw, skip_space(raw, i + 5) + 1)
        IdEnd(k) == LET stops == {j \in k..Len(raw) : ~(IsDigit(raw[j]) \/ raw[j] = ".")}
                    IN IF stops = {} THEN Len(raw) + 1 ELSE Min(stops)
        starts == {i \in 1..Len(raw) :
                    /\ i + 4 <= Len(raw)
                    /\ lower(SubSeq(raw, i, i + 4)) = s_arxiv
                    /\ at(raw, skip_space(raw, i + 5), <<":">>)
                    /\ IdEnd(IdStart(i)) > IdStart(i)}
    IN IF starts = {} THEN <<>>
       ELSE SubSeq(raw, IdStart(Min(starts)), IdEnd(IdStart(Min(starts))) - 1)

\* d.setdefault(k, v)
setdefault(d, k, v) == IF k \in DOMAIN d THEN d ELSE Put(d, k, v)

\* lines 608-611
post_fields(i) ==
    clean_field(clean_field(clean_field(clean_field(i, "title"), "journal"),
                            "publisher"), "url")

\* lines 613-623, authors being i.get("authors") or []
post_authors_of(i, authors) ==
    IF IsList(authors)
    THEN Put(i, "authors",
             List(IF Truthy(Get(i, "journal"))
                  THEN drop_journalish(clean_authors(authors.v))
                  ELSE clean_authors(authors.v)))
    ELSE i

\* lines 612-623
post_authors(i) == post_authors_of(i, Or(Get(i, "authors"), List(<<>>)))

\* i["year"] = year if a year was found
post_year_of(i, year) == IF year # None THEN Put(i, "year", year) ELSE i

\* lines 624-630
post_year(i) ==
    post_year_of(i, IF ~Truthy(Get(i, "year")) /\ IsStr(Get(i, "raw_text"))
                    THEN search_century_year(Get(i, "raw_text").v)
                    ELSE None)

\* lines 633-636, arxiv_id being group 1 of the match, <<>> without a match
post_arxiv_of(i, arxiv_id) ==
    IF arxiv_id # <<>>
    THEN setdefault(setdefault(setdefault(i, "journal", Str(<<"a", "r", "X", "i", "v">>)),
                               "source_type", Str(s_article)),
                    "url", Str(s_https \o <<"a", "r", "x", "i", "v", ".", "o", "r", "g",
                                            "/", "a", "b", "s", "/">> \o arxiv_id))
    ELSE i

\* lines 631-636
post_arxiv(i) == post_arxiv_of(i, search_arxiv(Or(Get(i, "raw_text"), Str(<<>>)).v))

_postprocess_item(item_) == post_arxiv(post_year(post_authors(post_fields(item_))))

\* not (md.get("title") and md.get("authors") and md.get("year"))
sparse(md) ==
    ~(Truthy(Get(md, "title")) /\ Truthy(Get(md, "authors")) /\ Truthy(Get(md, "year")))

\* The locals of one turn of the loop of lines 638-699: the extraction, what
\* the LLM contributed, the registry's mappings (None while not asked, and
\* when the service fails) and item, the record being built.
upload_frame(extr) ==
    [extracted |-> extr, llm_md |-> EmptyDict, enriched |-> None, fetched |-> None,
     item |-> extr]

\* lines 643-652: md = merge_metadata(md, llm_md), the wrapper being asked
\* when the extraction is sparse
upload_llm(fr, req, llm) ==
    IF req.llm_parse /\ sparse(fr.item) /\ DOMAIN llm # {}
    THEN [fr EXCEPT !.llm_md = llm, !.item = merge_metadata(@, llm)]
    ELSE fr

\* lines 653-655: md = {**md, "raw_text": ref}; item = normalize_metadata(md)
upload_normalize(fr, ref) ==
    [fr EXCEPT !.item = normalize_metadata(IF Len(ref) > 0 THEN Put(@, "raw_text", Str(ref))
                                           ELSE @)]

\* item = merge_metadata(item, enriched) if enriched
upload_enriched(fr, enriched) ==
    IF enriched # None
    THEN [fr EXCEPT !.enriched = enriched, !.item = merge_metadata(@, enriched)]
    ELSE fr

\* lines 656-664; srch is what the registry's search answers
upload_search(fr, ref, req, srch) ==
    upload_enriched(fr, IF req.includeDOI /\ (sparse(fr.item) \/ ~Truthy(fr.item.doi))
                        THEN search_metadata_bibliographic(ref, srch)
                        ELSE None)

\* item = merge_metadata(item, fetched) if fetched
upload_fetched(fr, fetched) ==
    IF fetched # None
    THEN [fr EXCEPT !.fetched = fetched, !.item = merge_metadata(@, fetched)]
    ELSE fr

\* lines 665-672; reg is what the registry answers
upload_fetch(fr, reg) ==
    upload_fetched(fr, IF Truthy(Get(fr.item, "doi")) /\ ~Truthy(Get(fr.item, "title"))
                       THEN fetch_metadata_from_doi(Get(fr.item, "doi"), reg)
                       ELSE None)

\* line 673: item = _postprocess_item(item)
upload_postprocess(fr) == [fr EXCEPT !.item = _postprocess_item(@)]

\* One turn of the loop of lines 638-699 up to line 673.
upload_steps(ref, req, llm, srch, reg) ==
    upload_postprocess(
        upload_fetch(
            upload_search(
                upload_normalize(
                    upload_llm(upload_frame(extract_from_raw_text(Str(ref))), req, llm),
                    ref),
                ref, req, srch),
            reg))

\* What was layered onto the record of one reference: no user input, the
\* registry search, the DOI lookup, the extraction, the LLM.
upload_layer(steps) ==
    [sources |-> <<EmptyDict,
                   IF steps.enriched # None THEN steps.enriched ELSE EmptyDict,
                   IF steps.fetched # None THEN steps.fetched ELSE EmptyDict,
                   steps.extracted,
                   steps.llm_md>>,
     final |-> steps.item]

\* The first n turns of the loop over the candidates.
RECURSIVE upload_run(_, _, _, _, _, _)
upload_run(candidates, n, req, llm, srch, reg) ==
    IF n = 0 THEN <<>>
    ELSE <<upload_steps(candidates[1], req, llm, srch, reg)>>
            \o upload_run(Tail(candidates), n - 1, req, llm, srch, reg)

\* line 601, PDF_PROCESS_TIME_BUDGET being unset
time_budget_s == 150

\* The turns the loop makes: clock[i] are the seconds since start_time that
\* line 639 finds before the i-th candidate, and the loop breaks at the
\* first reading above the budget.
RECURSIVE upload_turns(_, _)
upload_turns(candidates, clock) ==
    IF candidates = <<>> \/ clock[1] > time_budget_s THEN 0
    ELSE 1 + upload_turns(Tail(candidates), Tail(clock))

\* The readings of the clock that line 639 made in n turns over total
\* candidates: one for each turn, and the one that broke the loop.
upload_readings(clock, n, total) ==
    [i \in 1..(IF n < total THEN n + 1 ELSE n) |->
        [service |-> "utcnow", answer |-> Num(clock[i])]]

\* lines 597-599 and 602: the lists and the counter before the loop; turns
\* are the lengths of the lists and the counter as each turn left them.
upload_lists ==
    [parsed_items |-> <<>>, items_formatted |-> <<>>, items_validation |-> <<>>,
     processed_count |-> 0, turns |-> <<>>]

\* lines 683-687: the errors of the validation, none when validate raises
upload_validation(it) ==
    [errors |-> validate(it, Or(Get(it, "source_type"), Str(s_article)), Str(s_APA)).errors]

\* lines 688-691: the formatted item, "" when format_with_csl raises
upload_format(mode, it) ==
    format_with_csl(mode, it, Or(Get(it, "source_type"), Str(s_article))).text

\* A rendering that ends the turn when format_with_csl raises, before
\* anything more is appended.
upload_append_unless_raised(ls, mode, it) ==
    IF format_with_csl(mode, it, Or(Get(it, "source_type"), Str(s_article))).raised
    THEN [ls EXCEPT !.items_validation = Append(@, upload_validation(it)),
                    !.turns = Append(@, [parsed_items |-> Len(ls.parsed_items),
                                         items_formatted |-> Len(ls.items_formatted),
                                         items_validation |-> Len(ls.items_validation) + 1,
                                         processed_count |-> ls.processed_count])]
    ELSE [parsed_items |-> Append(ls.parsed_items, it),
          items_formatted |-> Append(ls.items_formatted, upload_format(mode, it)),
          items_validation |-> Append(ls.items_validation, upload_validation(it)),
          processed_count |-> ls.processed_count + 1,
          turns |-> Append(ls.turns, [parsed_items |-> Len(ls.parsed_items) + 1,
                                      items_formatted |-> Len(ls.items_formatted) + 1,
                                      items_validation |-> Len(ls.items_validation) + 1,
                                      processed_count |-> ls.processed_count + 1])]

\* lines 687, 692, 693 and 699: what a turn appends for its item
upload_append(ls, mode, it) ==
    [parsed_items |-> Append(ls.parsed_items, it),
     items_formatted |-> Append(ls.items_formatted, upload_format(mode, it)),
     items_validation |-> Append(ls.items_validation, upload_validation(it)),
     processed_count |-> ls.processed_count + 1,
     turns |-> Append(ls.turns, [parsed_items |-> Len(ls.parsed_items) + 1,
                                 items_formatted |-> Len(ls.items_formatted) + 1,
                                 items_validation |-> Len(ls.items_validation) + 1,
                                 processed_count |-> ls.processed_count + 1])]

\* The lists after the turns of run, ls being the lists before them.
RECURSIVE upload_loop(_, _, _)
upload_loop(ls, mode, run) ==
    IF run = <<>> THEN ls
    ELSE upload_loop(upload_append(ls, mode, run[1].item), mode, Tail(run))

RECURSIVE upload_layers(_)
upload_layers(run) ==
    IF run = <<>> THEN <<>> ELSE <<upload_layer(run[1])>> \o upload_layers(Tail(run))

\* upload_pdf once the loop is run: the saves of lines 693-697, one in each
\* turn, and the response of lines 706-724
upload_respond(req, run, ls, clock, saved) ==
    [status |-> 200,
     store |-> saved.store,
     layers |-> upload_layers(run),
     response |-> [items |-> ls.parsed_items,
                   items_formatted |-> ls.items_formatted,
                   items_validation |-> ls.items_validation,
                   count |-> Len(ls.parsed_items),
                   truncated |-> ls.processed_count < Len(req.candidates),
                   processed_count |-> ls.processed_count,
                   total_candidates |-> Len(req.candidates),
                   time_budget_seconds |-> time_budget_s],
     calls |-> ls.turns,
     heap |-> <<>>,
     external |-> upload_readings(clock, Len(run), Len(req.candidates)),
     saves |-> saved.saves]

\* the saves of the turns, on a database that fails at the calls in bad
upload_saves(rows, mode, req, parsed_items, bad) ==
    IF req.save
    THEN save_each(save_start(rows), mode, parsed_items, Str(s_APA), req.user_id,
                   req.save_all, bad)
    ELSE save_start(rows)

\* upload_pdf once the items of the turns are known
upload_saved(rows, mode, req, run, ls, clock, bad) ==
    upload_respond(req, run, ls, clock, upload_saves(rows, mode, req, ls.parsed_items, bad))

\* upload_pdf once the turns of the loop are run
upload_parsed(rows, mode, req, run, clock, bad) ==
    upload_saved(rows, mode, req, run, upload_loop(upload_lists, mode, run), clock, bad)

\* upload_pdf, for a request with style left to its default; candidates are
\* the entries that _split_candidate_references returned, and clock are the
\* readings line 639 finds before each of them; bad are the calls of
\* save_to_ltm at which the database fails.
upload_pdf(rows, mode, req, clock, llm, srch, reg, bad) ==
    IF req.empty
    THEN [status |-> 400, store |-> rows, layers |-> <<>>,
          response |-> EmptyDict, calls |-> <<>>, heap |-> <<>>, external |-> <<>>,
          saves |-> <<>>]
    ELSE upload_parsed(rows, mode, req,
                       upload_run(req.candidates, upload_turns(req.candidates, clock), req,
                                  llm, srch, reg),
                       clock, bad)

----------------------------------------------------------------------------
(* The specification of single merge_metadata calls *)

MergeKeys == {"title", "year"}

MergeVals ==
    {None, Str(<<>>), Str(<<"a">>), Str(<<"b">>), Num(0), Num(1999), List(<<>>)}

\* Every mapping over MergeKeys, a key absent or bound to any value.
MergeDicts ==
    UNION {[D -> MergeVals] : D \in SUBSET MergeKeys}

IdleMerge ==
    /\ base = EmptyDict
    /\ extracted = EmptyDict
    /\ merged = EmptyDict
    /\ mergeDone = FALSE

IdleNorm ==
    /\ metadata = EmptyDict
    /\ item = EmptyDict
    /\ item2 = EmptyDict
    /\ normPhase = 0

IdleSave ==
    /\ store = <<>>
    /\ cslMode = "missing"
    /\ saveItem = EmptyDict
    /\ saveForce = FALSE
    /\ saveCalled = FALSE
    /\ storeBefore = <<>>

IdleRequest ==
    /\ handler = "none"
    /\ request = EmptyDict
    /\ status = 0
    /\ layers = <<>>
    /\ response = EmptyDict
    /\ calls = <<>>
    /\ heap = <<>>
    /\ external = <<>>
    /\ saves = <<>>

IdleCall ==
    /\ callFn = "none"
    /\ callArgs = <<>>
    /\ callResult = <<>>

\* The plagiarism agent before its startup event: main.py 26 and 56-57; no
\* processor is 0, the instances are numbered from 1.
IdlePlagiarism ==
    /\ models_loaded = FALSE
    /\ models_loading = FALSE
    /\ processor = 0
    /\ constructed = 0
    /\ loader = "unstarted"
    /\ worker = "idle"
    /\ arrival = "none"
    /\ lastAnswer = "none"
    /\ served = 0
    /\ reported = FALSE

InitMerge ==
    /\ base \in MergeDicts
    /\ extracted \in MergeDicts
    /\ merged = EmptyDict
    /\ mergeDone = FALSE
    /\ IdleNorm
    /\ IdleSave
    /\ IdleRequest
    /\ IdlePlagiarism
    /\ IdleCall

CallMerge ==
    /\ ~mergeDone
    /\ merged' = merge_metadata(base, extracted)
    /\ mergeDone' = TRUE
    /\ UNCHANGED <<base, extracted, varsNorm, varsSave, varsRequest, varsCall, varsPlagiarism>>

NextMerge == CallMerge

SpecMerge == InitMerge /\ [][NextMerge]_vars

\* C1: a key that is truthy in base keeps its value in merge_metadata(base,
\* incoming), whatever incoming holds for it.
C1_TruthyBaseKept ==
    mergeDone =>
        \A k \in DOMAIN base :
            Truthy(base[k]) => k \in DOMAIN merged /\ merged[k] = base[k]

C1_Witness ==
    /\ mergeDone
    /\ \E k \in DOMAIN base \cap DOMAIN extracted :
        /\ Truthy(base[k])
        /\ Truthy(extracted[k])
        /\ extracted[k] # base[k]
        /\ merged[k] = base[k]

\* C3 as stated: for every key k of incoming the result holds incoming[k] when
\* base has no truthy value for k and base[k] otherwise, and the result has no
\* keys other than those of base and incoming.
C3_AsStated ==
    mergeDone =>
        /\ DOMAIN merged \subseteq DOMAIN base \cup DOMAIN extracted
        /\ \A k \in DOMAIN extracted :
            /\ k \in DOMAIN merged
            /\ merged[k] = IF Truthy(Get(base, k)) THEN base[k] ELSE extracted[k]

\* C3 amended: an incoming value is copied exactly when base has no truthy
\* value for the key and the incoming value is itself truthy; every other key
\* of incoming is left as base has it (absent when base lacks it); the result
\* has no keys other than those of base and incoming.
C3_FillsGapsWithTruthy ==
    mergeDone =>
        /\ DOMAIN merged \subseteq DOMAIN base \cup DOMAIN extracted
        /\ \A k \in DOMAIN extracted :
            IF ~Truthy(Get(base, k)) /\ Truthy(extracted[k])
            THEN k \in DOMAIN merged /\ merged[k] = extracted[k]
            ELSE /\ k \in DOMAIN merged <=> k \in DOMAIN base
                 /\ k \in DOMAIN base => merged[k] = base[k]

C3_Witness ==
    /\ mergeDone
    /\ \E k \in DOMAIN extracted :
        /\ ~Truthy(Get(base, k)) /\ Truthy(extracted[k]) /\ merged[k] = extracted[k]
    /\ \E k \in DOMAIN extracted :
        /\ ~Truthy(extracted[k]) /\ k \notin DOMAIN base /\ k \notin DOMAIN merged

----------------------------------------------------------------------------
(* The specification of normalize_metadata calls *)

MaxDoiPrefixes == 2
MaxPagesLen == 4
MaxAuthorLen == 4

\* Every string over the alphabet A of at most n characters.
StringsUpTo(A, n) == UNION {[1..m -> A] : m \in 0..n}

DoiPrefixes ==
    {s_doi, s_DOI, <<"D", "o", "i", ":">>,
     s_https \o s_doi_org, s_http \o s_doi_org,
     <<"H", "T", "T", "P", "S", ":", "/", "/", "D", "O", "I", ".", "O", "R", "G", "/">>,
     <<" ">>}

DoiBodies == {<<>>, <<"1", "0", ".", "1", "/", "a">>, <<"1", "0", ".", "1", "/", "A", " ">>}

\* DOI inputs: a body behind at most n prefixes.
RECURSIVE DoiStrings(_)
DoiStrings(n) ==
    IF n = 0 THEN DoiBodies
    ELSE DoiStrings(n - 1) \cup {p \o d : p \in DoiPrefixes, d \in DoiStrings(n - 1)}

PagesAlphabet == {"1", "-", "U+2013", "U+2014", "U+2011", " "}
AuthorAlphabet == {"a", "b", " ", ",", ";"}

NormInputs ==
    {("doi" :> Str(d)) : d \in DoiStrings(MaxDoiPrefixes)}
    \cup {("pages" :> Str(p)) : p \in StringsUpTo(PagesAlphabet, MaxPagesLen)}
    \cup {("author" :> Str(a)) : a \in StringsUpTo(AuthorAlphabet, MaxAuthorLen)}
    \cup {EmptyDict,
          ("authors" :> List(<< <<"a", " ">>, <<>> >>)),
          ("doi" :> Num(10)) @@ ("pages" :> Num(12))}

InitNorm ==
    /\ metadata \in NormInputs
    /\ item = EmptyDict
    /\ item2 = EmptyDict
    /\ normPhase = 0
    /\ IdleMerge
    /\ IdleSave
    /\ IdleRequest
    /\ IdlePlagiarism
    /\ IdleCall

\* item = normalize_metadata(metadata)
CallNormalize ==
    /\ normPhase = 0
    /\ item' = normalize_metadata(metadata)
    /\ normPhase' = 1
    /\ UNCHANGED <<metadata, item2, varsMerge, varsSave, varsRequest, varsCall, varsPlagiarism>>

\* item2 = normalize_metadata({"doi": item["doi"]})
CallNormalizeAgain ==
    /\ normPhase = 1
    /\ item2' = normalize_metadata(("doi" :> item.doi))
    /\ normPhase' = 2
    /\ UNCHANGED <<metadata, item, varsMerge, varsSave, varsRequest, varsCall, varsPlagiarism>>

NextNorm == CallNormalize \/ CallNormalizeAgain

SpecNorm == InitNorm /\ [][NextNorm]_vars

\* C4: DOI normalization is idempotent: normalizing a mapping whose doi is an
\* already normalized doi returns that doi unchanged.
C4_DoiIdempotent ==
    (normPhase = 2 /\ IsStr(Get(metadata, "doi"))) => item2.doi = item.doi

HasAdjacentHyphens(p) == \E i \in 1..(Len(p) - 1) : p[i] = "-" /\ p[i + 1] = "-"

HasSpaceByHyphen(p) ==
    \E i \in 1..Len(p) :
        /\ p[i] = "-"
        /\ \/ (i > 1 /\ IsSpace(p[i - 1]))
           \/ (i < Len(p) /\ IsSpace(p[i + 1]))

\* The range separators of a pages string: its maximal runs of dashes and
\* whitespace that hold a dash, counted by the place of their first dash.
SeparatorRuns(p) ==
    {i \in 1..Len(p) :
        /\ p[i] \in DashChars
        /\ \A j \in 1..(i - 1) :
            (\A k \in j..(i - 1) : p[k] \in DashChars \/ IsSpace(p[k]))
                => p[j] \notin DashChars}

HyphenCount(p) == Cardinality({i \in 1..Len(p) : p[i] = "-"})

\* C6: the pages returned by normalize_metadata hold no unicode dash, no
\* whitespace next to a hyphen, and exactly one ASCII hyphen for each range
\* separator of the input, so never two adjacent hyphens.
C6_SingleHyphenSeparator ==
    (normPhase >= 1 /\ IsStr(Get(metadata, "pages")) /\ Truthy(Get(metadata, "pages"))) =>
        /\ \A i \in 1..Len(item.pages.v) : item.pages.v[i] \notin UnicodeDashes
        /\ ~HasSpaceByHyphen(item.pages.v)
        /\ ~HasAdjacentHyphens(item.pages.v)
        /\ HyphenCount(item.pages.v) = Cardinality(SeparatorRuns(metadata["pages"].v))

\* The segments of an author string between its ';' and ',' that are not
\* blank, counted by the place where each starts.
NonEmptySegments(a) ==
    {i \in 1..(Len(a) + 1) :
        /\ i = 1 \/ a[i - 1] \in {";", ","}
        /\ \E k \in i..Len(a) :
            /\ ~IsSpace(a[k]) /\ a[k] \notin {";", ","}
            /\ \A j \in i..k : a[j] \notin {";", ","}}

\* C7: for an author string, normalize_metadata returns as many authors as the
\* string has non-blank segments between ';' and ',', each trimmed and
\* non-empty; a string of separators and whitespace alone gives the empty list.
C7_AuthorsCountSegments ==
    (normPhase >= 1 /\ IsStr(Get(metadata, "author"))) =>
        /\ IsList(item.authors)
        /\ Len(item.authors.v) = Cardinality(NonEmptySegments(metadata["author"].v))
        /\ \A i \in 1..Len(item.authors.v) :
            /\ Len(item.authors.v[i]) > 0
            /\ strip(item.authors.v[i]) = item.authors.v[i]

----------------------------------------------------------------------------
(* The specification of save_to_ltm calls on a store that starts empty *)

MaxRows == 2

t_10_1_a == <<"1", "0", ".", "1", "/", "a">>

\* The records handed to save_to_ltm.
SaveItems ==
    {EmptyDict,
     ("title" :> Str(<<" ">>)) @@ ("doi" :> None) @@ ("url" :> Str(<<>>)) @@ ("year" :> Num(1999)),
     ("title" :> Str(<<"t">>)),
     ("title" :> Str(<<" ", "T">>)) @@ ("year" :> Num(1999)),
     ("title" :> Str(<<"t", "TAB">>)),
     ("doi" :> Str(t_10_1_a)),
     ("doi" :> Str(<<"1", "0", ".", "1", "/", "A", " ">>)) @@ ("title" :> Str(<<>>)),
     ("doi" :> Num(7)),
     ("url" :> Str(s_http \o <<"u">>)),
     ("raw_text" :> Str(<<"r">>)) @@ ("title" :> Str(<<" ">>)),
     ("title" :> Str(<<"t">>)) @@ ("doi" :> Str(<<"1", "0", ".", "1", "/", "b">>))}

InitSave ==
    /\ store = <<>>
    /\ cslMode \in CslModes
    /\ saveItem = EmptyDict
    /\ saveForce = FALSE
    /\ saveCalled = FALSE
    /\ storeBefore = <<>>
    /\ IdleMerge
    /\ IdleNorm
    /\ IdleRequest
    /\ IdlePlagiarism
    /\ IdleCall

\* save_to_ltm(it, None, user_id=None, force_save=force)
CallSave(it, force) ==
    /\ LET rows == save_to_ltm(store, cslMode, it, None, None, force)
       IN /\ Len(rows) <= MaxRows
          /\ store' = rows
    /\ storeBefore' = store
    /\ saveItem' = it
    /\ saveForce' = force
    /\ saveCalled' = TRUE
    /\ UNCHANGED <<cslMode, varsMerge, varsNorm, varsRequest, varsCall, varsPlagiarism>>

NextSave == \E it \in SaveItems, force \in BOOLEAN : CallSave(it, force)

SpecSave == InitSave /\ [][NextSave]_vars

NextSaveUnforced == \E it \in SaveItems : CallSave(it, FALSE)

SpecSaveUnforced == InitSave /\ [][NextSaveUnforced]_vars

\* Two column values that are both non-empty and equal once trimmed and
\* compared without case.
SameText(a, b) ==
    /\ a # None /\ b # None
    /\ Len(strip(a.v)) > 0
    /\ lower(strip(a.v)) = lower(strip(b.v))

\* C9: from an empty store and with force_save always false, no two stored
\* rows have the same non-empty DOI or the same non-empty title, compared
\* trimmed and case-insensitively (so a save that matches a row adds none).
C9_NoDuplicateRows ==
    \A i, j \in 1..Len(store) :
        i < j => /\ ~SameText(store[i].doi, store[j].doi)
                 /\ ~SameText(store[i].title, store[j].title)

\* A record that carries a non-blank title, or a doi, url or raw_text.
C10_Identified(it) ==
    \/ Truthy(Get(it, "title")) /\ \E k \in 1..Len(Get(it, "title").v) : ~IsSpace(Get(it, "title").v[k])
    \/ \E f \in {"doi", "url", "raw_text"} : Truthy(Get(it, f))

\* C10: save_to_ltm on a record with no non-blank title and no doi, url or
\* raw_text leaves the rows as they were, forced or not; so every row carries
\* at least one of title, doi, url, raw_text.
C10_EmptySaveIsNoOp ==
    /\ (saveCalled /\ ~C10_Identified(saveItem)) => store = storeBefore
    /\ \A i \in 1..Len(store) : C10_Identified(store[i].metadata)

C10_Witness ==
    /\ saveCalled /\ saveForce
    /\ ~C10_Identified(saveItem)
    /\ Truthy(Get(saveItem, "title"))
    /\ Len(store) = 1 /\ store = storeBefore

----------------------------------------------------------------------------
(* The specification of one request served by a service whose store is empty *)

MaxItems == 2
MaxRefs == 1

\* Every list over S of at most n elements.
ListsUpTo(S, n) == UNION {[1..m -> S] : m \in 0..n}

t_doi_lower == <<"1", "0", ".", "1", "2", "3", "4", "/", "a">>
t_doi_upper == <<"1", "0", ".", "1", "2", "3", "4", "/", "A">>
t_doi_prefixed == <<"D", "O", "I", ":", "1", "0", ".", "1", "2", "3", "4", "/", "A">>

\* Texts to parse: a DOI in upper case with a year, a quoted title with a
\* year and a URL, a year alone.
rt_doi == <<"1", "0", ".", "1", "2", "3", "4", "/", "A", "B", " ", "(", "1", "9", "9", "9", ")">>
rt_title == <<"QUOT", "A", "b", "c", "QUOT", " ", "2", "0", "0", "1", " ", "h", "t",
    "t", "p", ":", "/", "/", "x">>
rt_year == <<"(", "1", "9", "9", "9", ")">>

\* A reference too short for the registry search, and one of 41 characters.
ref_short == <<"1", "0", ".", "1", "2", "3", "4", "/", "A", "B", " ", "c">>
ref_long == <<"(", "1", "9", "9", "9", ")", " ">> \o [i \in 1..34 |-> "x"]

\* What fetch_metadata_from_doi builds from the registry's answer, apart from
\* the doi: None for a failed lookup, a full answer, one without a title.
RegistryAnswers ==
    {None,
     [title |-> Str(<<"R">>), year |-> Num(2001), journal |-> Str(<<"J">>), url |-> None],
     [title |-> None, year |-> Num(2001), journal |-> None, url |-> None]}

\* What search_metadata_bibliographic builds from the top result.
SearchAnswers ==
    {None,
     [title |-> Str(<<"R">>), year |-> Num(2001), journal |-> Str(<<"J">>),
      doi |-> Str(<<"1", "0", ".", "5", "5", "5", "5", "/", "r">>), url |-> None]}

\* What the LLM wrapper returns: nothing usable, or a mapping.
LlmAnswers ==
    {EmptyDict,
     [title |-> Str(<<"L">>), year |-> Str(<<"2", "0", "0", "5">>),
      doi |-> Str(<<"D", "O", "I", ":", "1", "0", ".", "9", "9", "9", "9", "/",
            "L">>)]}

\* What the registry does when /process looks a DOI up: an answer, or none in
\* time.
RegistryOutcomes == RegistryAnswers \cup {Failure}

\* What the LLM wrapper does when /process asks it: an answer, none in time,
\* or an output that is a JSON array.
LlmOutcomes == LlmAnswers \cup {Failure, List(<<Num(1)>>)}

\* The calls of save_to_ltm, of n in a row, at which the database may fail.
SaveFailures(n) == SUBSET (1..n)

ProcessMetadata ==
    {EmptyDict,
     ("doi" :> Str(t_doi_lower)),
     ("doi" :> Str(t_doi_prefixed)) @@ ("title" :> Str(<<"U">>)),
     ("title" :> Str(<<"U">>)) @@ ("year" :> Num(1990)),
     ("doi" :> Num(7))}

\* The two flags of a request that decide on saving: save_all is looked at
\* only when save is set.
SaveFlags == {f \in [save : BOOLEAN, save_all : BOOLEAN] : f.save_all => f.save}

ProcessRequests ==
    {[metadata |-> m, raw_text |-> r, llm_parse |-> l, save |-> f.save,
      save_all |-> f.save_all, user_id |-> Str(<<"u">>)] :
        m \in ProcessMetadata, r \in {None, Str(rt_doi), Str(rt_title)},
        l \in BOOLEAN, f \in SaveFlags}

BatchItems ==
    {Str(rt_doi),
     ("doi" :> Str(t_doi_lower)) @@ ("raw_text" :> Str(rt_year)),
     ("doi" :> Str(t_doi_upper)) @@ ("title" :> Str(<<"U">>)),
     ("title" :> Str(<<" ", "u">>))}

BibliographyRequests ==
    {[items |-> l, remove_duplicates |-> d, save |-> f.save, save_all |-> f.save_all,
      user_id |-> Str(<<"u">>)] :
        l \in ListsUpTo(BatchItems, MaxItems), d \in BOOLEAN, f \in SaveFlags}

\* An upload without content, and the uploads whose text splits into the
\* given candidates.
UploadRequests ==
    {[empty |-> TRUE, candidates |-> <<>>, llm_parse |-> TRUE, includeDOI |-> TRUE,
      save |-> FALSE, save_all |-> FALSE, user_id |-> None]}
    \cup {[empty |-> FALSE, candidates |-> c, llm_parse |-> l, includeDOI |-> d,
            save |-> f.save, save_all |-> f.save_all, user_id |-> Str(<<"u">>)] :
            c \in ListsUpTo({ref_short, ref_long}, MaxRefs),
            l \in BOOLEAN, d \in BOOLEAN, f \in SaveFlags}

InitRequest ==
    /\ store = <<>>
    /\ cslMode \in CslModes
    /\ saveItem = EmptyDict
    /\ saveForce = FALSE
    /\ saveCalled = FALSE
    /\ storeBefore = <<>>
    /\ IdleRequest
    /\ IdlePlagiarism
    /\ IdleCall
    /\ IdleMerge
    /\ IdleNorm

\* The handler named name serves req and ends as result says.
Serve(name, req, result) ==
    /\ handler = "none"
    /\ handler' = name
    /\ request' = req
    /\ status' = result.status
    /\ store' = result.store
    /\ layers' = result.layers
    /\ response' = result.response
    /\ calls' = result.calls
    /\ heap' = result.heap
    /\ external' = result.external
    /\ saves' = result.saves
    /\ UNCHANGED <<cslMode, saveItem, saveForce, saveCalled, storeBefore, varsMerge, varsNorm,
                   varsCall,
                   varsPlagiarism>>

\* The hosts of the live checks are out of reach when the registry is.
ProcessTask(req, reg, llm, db_fails) ==
    Serve("process", req, process_task(store, cslMode, req, reg, llm, reg = Failure, db_fails))

Bibliography(req, answer1, answer2, bad) ==
    Serve("bibliography", req, bibliography(store, cslMode, req, answer1, answer2, bad))

\* The seconds the clock of line 639 can show: the budget, and one more.
ClockReadings == {time_budget_s, time_budget_s + 1}

\* The readings before each of the candidates.
Clocks(candidates) == [1..Len(candidates) -> ClockReadings]

UploadPdf(req, clock, llm, srch, reg, bad) ==
    Serve("upload", req, upload_pdf(store, cslMode, req, clock, llm, srch, reg, bad))

\* A service that is not asked gives no answer. The database works.
NextRequest ==
    \/ \E req \in ProcessRequests, reg \in RegistryOutcomes :
        \E llm \in (IF req.llm_parse THEN LlmOutcomes ELSE {EmptyDict}) :
            ProcessTask(req, reg, llm, FALSE)
    \/ \E req \in BibliographyRequests, answer1 \in RegistryAnswers :
        \E answer2 \in (IF req.save_all THEN RegistryAnswers ELSE {None}) :
            Bibliography(req, answer1, answer2, {})
    \/ \E req \in UploadRequests, reg \in RegistryAnswers :
        \E llm \in (IF req.llm_parse THEN LlmAnswers ELSE {EmptyDict}),
           srch \in (IF req.includeDOI THEN SearchAnswers ELSE {None}),
           clock \in Clocks(req.candidates) :
            UploadPdf(req, clock, llm, srch, reg, {})

SpecRequest == InitRequest /\ [][NextRequest]_vars

\* The trust rank of the five sources of a layered record, in the order
\* user input, registry search, registry DOI lookup, free-text extraction,
\* LLM parsing; a lower rank is trusted more.
TrustRank == <<1, 2, 2, 3, 4>>

TrustKeys == {"title", "year", "journal", "url"}

\* The sources of layer l that supplied a truthy value for k.
Suppliers(l, k) == {i \in 1..5 : Truthy(Get(l.sources[i], k))}

\* C2: in every record built by /process, process_batch_items or the
\* /upload/pdf loop, a field never holds the value of a less trusted source
\* when a more trusted source (user input > registry > free-text extraction >
\* LLM) supplied a truthy value for it.
C2_TrustOrder ==
    \A n \in 1..Len(layers) : \A k \in TrustKeys :
        LET l == layers[n]
            top == Min({TrustRank[i] : i \in Suppliers(l, k)})
        IN Suppliers(l, k) # {} =>
            ~ /\ \A i \in Suppliers(l, k) :
                    TrustRank[i] = top => l.sources[i][k] # Get(l.final, k)
              /\ \E j \in Suppliers(l, k) :
                    TrustRank[j] > top /\ l.sources[j][k] = Get(l.final, k)

\* C5: every stored row has a doi that is absent, or a lower-case string
\* without a leading "doi:" and without a leading "http(s)://doi.org/".
C5_StoredDoiNormalized ==
    \A i \in 1..Len(store) :
        store[i].doi # None =>
            /\ IsStr(store[i].doi)
            /\ lower(store[i].doi.v) = store[i].doi.v
            /\ ~startswith(store[i].doi.v, s_doi)
            /\ ~startswith(store[i].doi.v, s_http \o s_doi_org)
            /\ ~startswith(store[i].doi.v, s_https \o s_doi_org)

\* C8: in /process every call of normalize_metadata, merge_metadata, validate
\* and format_with_csl leaves its argument mappings as they were, the
\* metadata of the request is never written, and the pre_llm_metadata of the
\* response is the merge of the normalized metadata with the extraction,
\* untouched by the raw_text written afterwards and by the LLM merge.
C8_StepsLeaveArgumentsUnchanged ==
    handler = "process" =>
        /\ \A i \in 1..Len(calls) : calls[i].after = calls[i].before
        /\ heap[1] = request.metadata
        /\ status = 200 =>
            response.pre_llm_metadata =
                merge_metadata(
                    normalize_metadata(merge_metadata(request.metadata, layers[1].sources[3])),
                    extract_from_raw_text(request.raw_text))

C8_Witness ==
    /\ handler = "process"
    /\ status = 200
    /\ Len(calls) = 6
    /\ Truthy(response.parsed_metadata.raw_text)
    /\ ~Truthy(response.pre_llm_metadata.raw_text)
    /\ response.parsed_metadata.title # response.pre_llm_metadata.title

----------------------------------------------------------------------------
(* The specification of single detect_duplicates calls *)

MaxDupItems == 3

t_10_1_a_lower == <<"1", "0", ".", "1", "/", "a">>
t_10_1_a_upper == <<"1", "0", ".", "1", "/", "A">>
t_10_1_b == <<"1", "0", ".", "1", "/", "b">>

\* Records with a doi, a title, both or neither; two spellings of one doi and
\* of one title.
DupItems ==
    {EmptyDict,
     "doi" :> Str(t_10_1_a_lower),
     "doi" :> Str(t_10_1_a_upper),
     "title" :> Str(<<"Y">>),
     "title" :> Str(<<" ", "y">>),
     ("doi" :> Str(t_10_1_a_lower)) @@ ("title" :> Str(<<"Y">>)),
     ("doi" :> Str(t_10_1_b)) @@ ("title" :> Str(<<"Y">>))}

InitDedup ==
    /\ callFn = "none"
    /\ callArgs \in {<<l>> : l \in ListsUpTo(DupItems, MaxDupItems)}
    /\ callResult = <<>>
    /\ IdleMerge
    /\ IdleNorm
    /\ IdleSave
    /\ IdleRequest
    /\ IdlePlagiarism

\* out = detect_duplicates(items)
CallDetectDuplicates ==
    /\ callFn = "none"
    /\ ~detect_duplicates_raises(callArgs[1])
    /\ callFn' = "detect_duplicates"
    /\ callResult' = detect_duplicates(callArgs[1])
    /\ UNCHANGED <<callArgs, varsMerge, varsNorm, varsSave, varsRequest, varsPlagiarism>>

NextDedup == CallDetectDuplicates

SpecDedup == InitDedup /\ [][NextDedup]_vars

\* Two records have the same DOI compared case-insensitively, or the same
\* title compared trimmed and case-insensitively.
SameDoiOrTitle(a, b) ==
    \/ /\ Truthy(Get(a, "doi")) /\ Truthy(Get(b, "doi"))
       /\ lower(Get(a, "doi").v) = lower(Get(b, "doi").v)
    \/ /\ Truthy(Get(a, "title")) /\ Truthy(Get(b, "title"))
       /\ lower(strip(Get(a, "title").v)) = lower(strip(Get(b, "title").v))

\* The places of the first n items that are kept when an item is dropped
\* exactly for an earlier kept item with the same DOI or title.
RECURSIVE KeptPlaces(_, _)
KeptPlaces(items, n) ==
    IF n = 0 THEN {}
    ELSE IF \E j \in KeptPlaces(items, n - 1) : SameDoiOrTitle(items[j], items[n])
         THEN KeptPlaces(items, n - 1)
         ELSE KeptPlaces(items, n - 1) \cup {n}

\* The items at the places of K, in their order.
RECURSIVE ItemsAt(_, _, _)
ItemsAt(items, K, n) ==
    IF n = 0 THEN <<>>
    ELSE IF n \in K THEN Append(ItemsAt(items, K, n - 1), items[n])
         ELSE ItemsAt(items, K, n - 1)

\* C11: detect_duplicates returns the items in their order, an item being
\* dropped exactly when an earlier kept item has the same DOI (compared
\* case-insensitively) or the same title (compared trimmed and
\* case-insensitively); an item with neither is kept.
C11_DropsSameDoiOrTitle ==
    callFn = "detect_duplicates" =>
        callResult = ItemsAt(callArgs[1], KeptPlaces(callArgs[1], Len(callArgs[1])), Len(callArgs[1]))

----------------------------------------------------------------------------
(* The specification of single validate calls *)

t_doi_ok == <<"1", "0", ".", "1", "0", "0", "0", "/", "x", "y", "z", "1", "2", "3">>
t_not_a_doi == <<"n", "o", "t", "-", "a", "-", "d", "o", "i">>

ValidateTitles == {None, Str(<<>>), Str(<<" ">>), Str(<<"X">>)}

ValidateYears ==
    {None, Str(<<>>), Str(<<" ">>), Str(<<"a", "b", "c">>), Str(<<"1", "9", "x", "9">>),
     Str(<<"1", "4", "9", "9">>), Str(<<"1", "5", "0", "0">>), Str(<<" ", "1", "9", "9", "9">>),
     Str(<<"2", "1", "0", "0">>), Str(<<"2", "1", "0", "1">>), Str(<<"-", "5">>),
     Num(0), Num(1499), Num(1500), Num(2020), Num(2100), Num(2101)}

ValidateDois ==
    {None, Str(<<>>), Str(t_doi_ok), Str(t_not_a_doi),
     Str(s_https \o s_doi_org \o t_doi_ok),
     Str(s_http \o s_doi_org \o t_not_a_doi),
     Str(<<"H">> \o Tail(s_https) \o s_doi_org \o t_doi_ok),
     Str(s_https \o <<"D", "O", "I", ".", "O", "R", "G", "/">> \o t_doi_ok),
     Str(<<" ">> \o t_doi_upper \o <<" ">>),
     Str(s_doi \o t_doi_ok),
     Str(<<"1", "0", ".", "1", "0", "0", "/", "x">>),
     Str(<<"1", "0", ".", "1", "0", "0", "0", "/">>),
     Num(7)}

ValidateUrls == {None, Str(s_http \o <<"x">>), Str(<<"f", "t", "p", ":", "/", "/", "x">>)}

\* Every record with a title, year, doi and url of the sets above, a key
\* bound to None being left out of half of them.
ValidateItems ==
    {("title" :> t) @@ ("year" :> y) @@ ("doi" :> d) @@ ("url" :> u) :
        t \in ValidateTitles, y \in ValidateYears, d \in ValidateDois, u \in ValidateUrls}
    \cup {("year" :> y) @@ ("doi" :> d) : y \in ValidateYears \ {None}, d \in ValidateDois}
    \cup {("title" :> t) @@ ("doi" :> d) : t \in ValidateTitles, d \in ValidateDois}

ValidateSourceTypes == {None, Str(<<"b", "o", "o", "k">>)}

ValidateStyles == {None, Str(s_APA)}

InitValidate ==
    /\ callFn = "none"
    /\ callArgs \in {<<it, st, style>> :
                        it \in ValidateItems, st \in ValidateSourceTypes,
                        style \in ValidateStyles}
    /\ callResult = <<>>
    /\ IdleMerge
    /\ IdleNorm
    /\ IdleSave
    /\ IdleRequest
    /\ IdlePlagiarism

\* errors, suggestions, confidence = validate(item, source_type, style)
CallValidate ==
    /\ callFn = "none"
    /\ callFn' = "validate"
    /\ callResult' = validate(callArgs[1], callArgs[2], callArgs[3])
    /\ UNCHANGED <<callArgs, varsMerge, varsNorm, varsSave, varsRequest, varsPlagiarism>>

NextValidate == CallValidate

SpecValidate == InitValidate /\ [][NextValidate]_vars

\* validate has returned and e is one of its errors.
Reports(e) ==
    /\ callFn = "validate"
    /\ ~callResult.raised
    /\ \E i \in 1..Len(callResult.errors) : callResult.errors[i] = e

\* C12: the errors of validate contain "Missing required field: title" if
\* and only if the title of the record is absent or empty, whatever the other
\* fields, the source_type and the style are.
C12_MissingTitleIffAbsent ==
    callFn = "validate" =>
        /\ ~callResult.raised
        /\ Reports("Missing required field: title")
            <=> Get(callArgs[1], "title") \in {None, Str(<<>>)}

C12_Witness ==
    /\ Reports("Missing required field: title")
    /\ Reports("Missing required field: year")
    /\ Reports("Invalid DOI syntax.")
    /\ callArgs[2] # None
    /\ callArgs[3] # None

\* A DOI as it is written in the record: the text of a number for a number.
DoiText(it) == py_str(Get(it, "doi"))

HasUrlPrefix(d) ==
    \E p \in {s_http \o s_doi_org, s_https \o s_doi_org} :
        Len(d) >= Len(p) /\ lower(SubSeq(d, 1, Len(p))) = p

\* What follows the first "doi.org/" of d matches the pattern.
MatchesAfterDoiOrg(d) ==
    \E i \in 1..Len(d) :
        /\ at(d, i, s_doi_org)
        /\ \A j \in 1..(i - 1) : ~at(d, j, s_doi_org)
        /\ doi_regex_match(SubSeq(d, i + Len(s_doi_org), Len(d)))

ReportsYear ==
    \/ Reports("Missing required field: year")
    \/ Reports("Year must be numeric.")
    \/ Reports("Year looks out of plausible range (1500-2100).")

\* The text s, trimmed, is a run of digits, a sign allowed before it.
IsNumeral(s) ==
    LET d == strip(s)
        digits == IF Len(d) > 0 /\ d[1] \in {"+", "-"} THEN Tail(d) ELSE d
    IN Len(digits) > 0 /\ \A k \in 1..Len(digits) : IsDigit(digits[k])

\* The number a numeral stands for.
NumeralValue(s) ==
    LET d == strip(s)
    IN IF d[1] = "-" THEN 0 - str_int(Tail(d))
       ELSE IF d[1] = "+" THEN str_int(Tail(d))
       ELSE str_int(d)

\* The year y, an integer or a string, is a number of 1500..2100.
PlausibleYear(y) ==
    IF y.t = "int" THEN y.v \in 1500..2100
    ELSE IsNumeral(y.v) /\ NumeralValue(y.v) \in 1500..2100

\* C14: for a year that is an integer or a string, the errors of validate
\* contain a year error (missing, not numeric, out of range) if and only if
\* the year is absent or empty, is not numeric, or lies outside 1500..2100;
\* 1500 and 2100 give no year error, 1499 and 2101 give one.
C14_YearErrorIffImplausible ==
    callFn = "validate" =>
        ReportsYear
            <=> \/ Get(callArgs[1], "year") \in {None, Str(<<>>)}
                \/ ~PlausibleYear(Get(callArgs[1], "year"))

C14_Witness ==
    /\ callFn = "validate"
    /\ Get(callArgs[1], "year") = Str(<<"2", "1", "0", "0">>)
    /\ ~ReportsYear
    /\ Reports("Missing required field: title")

----------------------------------------------------------------------------
(* The specification of single format_with_csl calls *)

\* Records with or without a title, a year, authors, a journal and a doi.
FormatItems ==
    {[k \in D |-> CASE k = "title" -> t
                    [] k = "year" -> y
                    [] k = "authors" -> List(<<<<"A", " ", "B">>>>)
                    [] k = "journal" -> Str(<<"J">>)
                    [] k = "doi" -> Str(t_doi_ok)] :
        D \in SUBSET {"title", "year", "authors", "journal", "doi"},
        t \in {Str(<<"X">>), Str(<<" ", "X", " ">>)},
        y \in {Num(2020), Str(<<"2", "0", "2", "0">>)}}

InitFormat ==
    /\ callFn = "none"
    /\ callArgs \in {<<it, Str(s_article)>> : it \in FormatItems}
    /\ callResult = <<>>
    /\ cslMode \in CslModes
    /\ store = <<>>
    /\ saveItem = EmptyDict
    /\ saveForce = FALSE
    /\ saveCalled = FALSE
    /\ storeBefore = <<>>
    /\ IdleMerge
    /\ IdleNorm
    /\ IdleRequest
    /\ IdlePlagiarism

\* formatted = format_with_csl("APA", item, source_type=source_type)
CallFormat ==
    /\ callFn = "none"
    /\ callFn' = "format_with_csl"
    /\ callResult' = format_with_csl(cslMode, callArgs[1], callArgs[2])
    /\ UNCHANGED <<callArgs, varsMerge, varsNorm, varsSave, varsRequest, varsPlagiarism>>

NextFormat == CallFormat

SpecFormat == InitFormat /\ [][NextFormat]_vars

\* p in s
Contains(s, p) == find(s, p) > 0

\* C15: when the CSL engine is unavailable, or raises while rendering,
\* format_with_csl does not raise: it returns the manual fallback text, which
\* is not empty and contains the year and the title of the record.
C15_FallbackWhenEngineFails ==
    callFn = "format_with_csl" /\ cslMode \in {"missing", "raises"} =>
        /\ ~callResult.raised
        /\ Len(callResult.text) > 0
        /\ Truthy(Get(callArgs[1], "year"))
            => Contains(callResult.text, py_str(Get(callArgs[1], "year")))
        /\ Truthy(Get(callArgs[1], "title"))
            => Contains(callResult.text, strip(Get(callArgs[1], "title").v))


----------------------------------------------------------------------------
(* The specification of requests served while the database may fail *)

SavingProcessRequests == {r \in ProcessRequests : r.save}

ConvertRequests == {[metadata |-> m] : m \in ProcessMetadata}

SavingBibliographyRequests == {r \in BibliographyRequests : r.save}

MaxSavedRefs == 2

\* Uploads that save, of up to MaxSavedRefs candidates, neither the LLM
\* wrapper nor the registry being asked.
SavingUploadRequests ==
    {[empty |-> FALSE, candidates |-> c, llm_parse |-> FALSE, includeDOI |-> FALSE,
      save |-> TRUE, save_all |-> a, user_id |-> Str(<<"u">>)] :
        c \in ListsUpTo({ref_short, ref_long}, MaxSavedRefs), a \in BOOLEAN}

Convert(req) == Serve("convert", req, convert(store, cslMode, req))

\* The registry has no record and the LLM wrapper nothing usable; the
\* database fails at any of the calls of save_to_ltm.
NextFailing ==
    \/ \E req \in SavingProcessRequests, db_fails \in BOOLEAN :
        ProcessTask(req, None, EmptyDict, db_fails)
    \/ \E req \in ConvertRequests : Convert(req)
    \/ \E req \in SavingBibliographyRequests :
        \E bad \in SaveFailures(Len(req.items)) : Bibliography(req, None, None, bad)
    \/ \E req \in SavingUploadRequests :
        \E clock \in Clocks(req.candidates) :
            \E bad \in SaveFailures(upload_turns(req.candidates, clock)) :
                UploadPdf(req, clock, EmptyDict, None, None, bad)

SpecFailing == InitRequest /\ [][NextFailing]_vars

\* C16: a request to /process or /convert for which no CSL style can be
\* resolved, or whose save raises, ends in an HTTP error status and carries no
\* SUCCESS report.
C16_SingleItemFailureIsReported ==
    (/\ handler \in {"process", "convert"}
     /\ \/ cslMode = "missing"
        \/ \E i \in 1..Len(saves) : saves[i].raised)
    => status >= 400 /\ response = EmptyDict

\* /process saved, the style being resolved, and the save raised.
C16_Witness ==
    /\ handler = "process"
    /\ cslMode # "missing"
    /\ saves # <<>>
    /\ saves[1].raised
    /\ status = 500

\* The records built by a batch handler, in the order of its input.
Finals(ls) == [i \in 1..Len(ls) |-> ls[i].final]

\* The list a batch handler hands to its loop of saves: the records of the
\* second run of process_batch_items when save_all is set, else the list it
\* rendered; for /upload/pdf the items of its turns.
ItemsToSave ==
    IF handler = "upload" THEN response.items
    ELSE IF request.save_all
    THEN SubSeq(Finals(layers), Len(request.items) + 1, 2 * Len(request.items))
    ELSE IF request.remove_duplicates THEN detect_duplicates(Finals(layers))
    ELSE Finals(layers)

\* C18: in /bibliography and /upload/pdf a save that raises leaves the
\* response at SUCCESS, and the calls of save_to_ltm are one for each item of
\* the list to save, in the order of the list, whichever of them raise.
C18_BatchSavesGoOn ==
    (handler \in {"bibliography", "upload"} /\ request.save)
    => /\ (\E i \in 1..Len(saves) : saves[i].raised) => status = 200
       /\ status = 200 => [i \in 1..Len(saves) |-> saves[i].item] = ItemsToSave

\* /bibliography saved two items, and the save of the first one raised.
C18_Witness ==
    /\ handler = "bibliography"
    /\ status = 200
    /\ Len(saves) = 2
    /\ saves[1].raised
    /\ ~saves[2].raised
    /\ Len(store) = 1

----------------------------------------------------------------------------
(* /process and the outside services *)

\* A call of an outside service that gave nothing to work with: it raised,
\* timed out or came back with an error status, or the output of the LLM
\* wrapper was not the JSON object asked for.
Failed(e) ==
    \/ e.answer = Failure
    \/ e.service = "llm_wrapper" /\ e.answer # Answered /\ ~IsMapping(e.answer)

\* The places in the log of the calls whose answer the pipeline works with.
Usable(service) ==
    {i \in 1..Len(external) :
        /\ external[i].service = service
        /\ external[i].answer # Answered
        /\ ~Failed(external[i])}

\* What the service gave to the request served, nothing standing for the
\* answer of a call that failed or was not made.
Given(service, nothing) ==
    IF Usable(service) # {} THEN external[CHOOSE i \in Usable(service) : TRUE].answer
    ELSE nothing

\* The same request served with every failed call contributing nothing.
WithoutFailures ==
    process_task(<<>>, cslMode, request, Given("registry_lookup", None),
                 Given("llm_wrapper", EmptyDict), FALSE, FALSE)

\* The number of calls of the service during the request served.
CallsOf(service) == Cardinality({i \in 1..Len(external) : external[i].service = service})

\* C19: in /process a failed call of the registry, of the LLM wrapper or of a
\* live check is not surfaced: the request ends as it does when that call
\* contributes nothing, with the same parsed metadata, and no service is
\* called more than once during a request.
C19_ExternalFailureNotSurfaced ==
    handler = "process"
    => /\ (\E i \in 1..Len(external) : Failed(external[i]))
          => /\ status = WithoutFailures.status
             /\ status = 200
                => response.parsed_metadata = WithoutFailures.response.parsed_metadata
       /\ \A s \in {"registry_lookup", "llm_wrapper", "doi_live", "url_live"} : CallsOf(s) <= 1

----------------------------------------------------------------------------
(* The /process endpoints of the four agents: envelopes and reports *)

\* A request body that is not JSON: req.json() raises.
NotJson == [t |-> "not_json"]

\* str(uuid.uuid4())
uuid4 == [t |-> "uuid"]

\* bool(x) for a JSON value
TruthyJson(x) == IF IsMapping(x) THEN DOMAIN x # {} ELSE Truthy(x)

\* TaskEnvelope(**body) goes through: the body is an object with a message_id,
\* a sender and a task object.
envelope_valid(body) ==
    /\ IsMapping(body)
    /\ {"message_id", "sender", "task"} \subseteq DOMAIN body
    /\ IsStr(body.message_id)
    /\ IsStr(body.sender)
    /\ IsMapping(body.task)

\* What a handler that touches neither the citations table nor the objects
\* of /process leaves: the HTTP status, the body of the response and the
\* calls of its collaborators.
agent_result(rows, http, out, asked) ==
    [status |-> http, store |-> rows, layers |-> <<>>, response |-> out, calls |-> <<>>,
     heap |-> <<>>, external |-> asked, saves |-> <<>>]

\* raise HTTPException(status_code=400, detail=f"Invalid request body: {e}")
invalid_body(rows) == agent_result(rows, 400, [detail |-> "Invalid request body"], <<>>)

\* An exception that no handler catches: the framework answers HTTP 500.
unhandled(rows, asked) == agent_result(rows, 500, EmptyDict, asked)

\* One call of a collaborator, which answered or raised.
asked_one(service, ok) == [service |-> service, answer |-> IF ok THEN Answered ELSE Failure]

\* citation_manager/app.py 275-282: the report of /process
citation_report(body, r) ==
    IF r.status = 200
    THEN [r EXCEPT !.response = [message_id |-> uuid4,
                                 sender |-> "CitationManagerAgent",
                                 recipient |-> body.sender,
                                 related_message_id |-> body.message_id,
                                 status |-> "SUCCESS",
                                 results |-> r.response]]
    ELSE r

\* citation_manager/app.py 44-285: process_task from the body on
citation_process(rows, mode, body, reg, llm) ==
    IF ~envelope_valid(body) THEN invalid_body(rows)
    ELSE citation_report(body,
            process_task(rows, mode, body.task.parameters, reg, llm, reg = Failure, FALSE))

\* lecture_insight/app.py: the CompletionReport of each return
lecture_report(body, st, results) ==
    [message_id |-> uuid4, sender |-> "LectureInsightAgent", recipient |-> body.sender,
     related_message_id |-> body.message_id, status |-> st, results |-> results]

\* lines 117-118: the payload of the structured format
lecture_payload(params) ==
    IF "agent_name" \in DOMAIN params /\ "payload" \in DOMAIN params THEN params.payload
    ELSE params

\* lines 121-122: the data wrapper
lecture_data(params) ==
    IF "data" \in DOMAIN params /\ IsMapping(params.data) THEN params.data ELSE params

\* lines 125-136: audio_input, built from a URL when none is given
lecture_audio_input(params) ==
    IF TruthyJson(Get(params, "audio_input")) THEN params.audio_input
    ELSE IF Truthy(Or(Get(params, "audio_url"), Get(params, "url")))
    THEN [type |-> Str(<<"u", "r", "l">>),
          data |-> Or(Get(params, "audio_url"), Get(params, "url")),
          format |-> GetOr(params, "format", Str(<<"m", "p", "3">>))]
    ELSE None

\* ltm.lookup, which found the output in the cache ("hit"), did not ("miss"),
\* or raised.
lookup_asked(lookup) ==
    [service |-> "ltm.lookup", answer |-> IF lookup = "raises" THEN Failure ELSE [t |-> lookup]]

\* execute_workflow, which returned a state ("ok"), a state with an error
\* ("error"), or raised.
workflow_asked(workflow) ==
    [service |-> "execute_workflow",
     answer |-> IF workflow = "raises" THEN Failure
                ELSE IF workflow = "error" THEN [t |-> "error"] ELSE Answered]

\* The calls of a request that saved where the workflow left an error.
workflow_calls_saving_errors(workflow, save_ok) ==
    IF workflow = "raises" THEN <<lookup_asked("miss"), workflow_asked(workflow)>>
    ELSE <<lookup_asked("miss"), workflow_asked(workflow), asked_one("ltm.save", save_ok)>>

\* lines 210-242 and 315-346: the calls of a request that found nothing in
\* the cache; the output is saved when the workflow left no error
workflow_calls(workflow, save_ok) ==
    IF workflow = "ok"
    THEN <<lookup_asked("miss"), workflow_asked(workflow), asked_one("ltm.save", save_ok)>>
    ELSE <<lookup_asked("miss"), workflow_asked(workflow)>>

\* lines 210-265: the workflow and the save of its output, inside the try
lecture_workflow(rows, body, workflow, save_ok) ==
    IF workflow = "raises"
    THEN agent_result(rows, 200, lecture_report(body, "FAILURE", [error |-> "raised"]),
                      workflow_calls(workflow, save_ok))
    ELSE IF workflow = "error"
    THEN agent_result(rows, 200, lecture_report(body, "FAILURE", [error |-> "state"]),
                      workflow_calls(workflow, save_ok))
    ELSE agent_result(rows, 200,
                      IF save_ok THEN lecture_report(body, "SUCCESS", [cached |-> FALSE])
                      ELSE lecture_report(body, "FAILURE", [error |-> "raised"]),
                      workflow_calls(workflow, save_ok))

\* lines 139-265, with the parameters and the audio_input found: input_ok
\* says that LectureInsightInput accepts them, lookup is what the cache does,
\* workflow what execute_workflow does, save_ok that ltm.save goes through
lecture_input(rows, body, audio_input, input_ok, lookup, workflow, save_ok) ==
    IF ~TruthyJson(audio_input)
    THEN agent_result(rows, 200, lecture_report(body, "SUCCESS", [requires_audio |-> TRUE]),
                      <<>>)
    ELSE IF ~input_ok
    THEN agent_result(rows, 200, lecture_report(body, "FAILURE", [error |-> "parameters"]),
                      <<>>)
    ELSE IF lookup = "raises" THEN unhandled(rows, <<lookup_asked(lookup)>>)
    ELSE IF lookup = "hit"
    THEN agent_result(rows, 200, lecture_report(body, "SUCCESS", [cached |-> TRUE]),
                      <<lookup_asked(lookup)>>)
    ELSE lecture_workflow(rows, body, workflow, save_ok)

\* lecture_insight/app.py 91-265: process_task
lecture_process(rows, body, input_ok, lookup, workflow, save_ok) ==
    IF ~envelope_valid(body) THEN invalid_body(rows)
    ELSE lecture_input(rows, body,
            lecture_audio_input(
                lecture_data(
                    lecture_payload(IF TruthyJson(Get(body.task, "parameters"))
                                    THEN body.task.parameters ELSE EmptyDict))),
            input_ok, lookup, workflow, save_ok)

\* raise HTTPException(status_code=500, detail={..., "code": code, ...})
lecture_error(rows, code, asked) == agent_result(rows, 500, [detail |-> [code |-> code]], asked)

\* lines 315-371: the workflow of /api/v1/process-lecture and the save of
\* its output
process_lecture_workflow(rows, workflow, save_ok) ==
    IF workflow = "error"
    THEN lecture_error(rows, "WORKFLOW_ERROR", workflow_calls(workflow, save_ok))
    ELSE IF workflow = "raises" \/ ~save_ok
    THEN lecture_error(rows, "PROCESSING_ERROR", workflow_calls(workflow, save_ok))
    ELSE agent_result(rows, 200, [output |-> "output"], workflow_calls(workflow, save_ok))

\* lecture_insight/app.py 268-371: process_lecture, for an input that
\* LectureInsightInput accepted
process_lecture(rows, lookup, workflow, save_ok) ==
    IF lookup = "raises" THEN unhandled(rows, <<lookup_asked(lookup)>>)
    ELSE IF lookup = "hit"
    THEN agent_result(rows, 200, [output |-> "cached_output"], <<lookup_asked(lookup)>>)
    ELSE process_lecture_workflow(rows, workflow, save_ok)

\* plagiarism_prevention_agent/app/main.py: the body of each return
plagiarism_report(st, results) ==
    [message_id |-> uuid4, sender |-> "plagiarism_prevention_agent", status |-> st,
     results |-> results]

\* lines 136-143: the text of the agent-specific payload
plagiarism_payload_text(params) ==
    IF "payload" \in DOMAIN params /\ IsMapping(params.payload)
    THEN IF "input" \in DOMAIN params.payload /\ IsMapping(params.payload.input)
         THEN Get(params.payload.input, "student_text")
         ELSE IF "student_text" \in DOMAIN params.payload THEN params.payload.student_text
         ELSE IF "text" \in DOMAIN params.payload THEN params.payload.text
         ELSE None
    ELSE None

\* lines 146-151: the text of the data field
plagiarism_data_text(params, text) ==
    IF ~Truthy(text) /\ "data" \in DOMAIN params
    THEN IF IsMapping(params.data)
         THEN Or(Get(params.data, "student_text"),
                 Or(Get(params.data, "text"), Get(params.data, "content")))
         ELSE IF IsStr(params.data) THEN params.data
         ELSE text
    ELSE text

\* lines 154-155: the direct fields
plagiarism_direct_text(params, text) ==
    IF ~Truthy(text)
    THEN Or(Get(params, "student_text"), Or(Get(params, "text"), Get(params, "content")))
    ELSE text

\* lines 161-164: the part after the first colon, when it is long enough
plagiarism_after_colon(text) ==
    IF /\ Truthy(text)
       /\ find(text.v, <<":">>) > 0
       /\ Len(strip(after_first(text.v, <<":">>))) > 20
    THEN Str(strip(after_first(text.v, <<":">>)))
    ELSE text

\* lines 158-164: the raw request field
plagiarism_request_text(params, text) ==
    IF ~Truthy(text)
    THEN plagiarism_after_colon(Or(Get(params, "request"), Get(params, "original_request")))
    ELSE text

\* lines 133-164: text_to_check
plagiarism_text(params) ==
    plagiarism_request_text(params,
        plagiarism_direct_text(params,
            plagiarism_data_text(params, plagiarism_payload_text(params))))

\* lines 166-234: the check of the text; processor_ok says that get_processor
\* and process_text go through
plagiarism_check(rows, text, processor_ok) ==
    IF ~Truthy(text)
    THEN agent_result(rows, 200, plagiarism_report("FAILURE", [error |-> "No text provided"]),
                      <<>>)
    ELSE agent_result(rows, 200,
                      IF processor_ok
                      THEN plagiarism_report("SUCCESS", [original_text |-> text])
                      ELSE plagiarism_report("FAILURE", [error |-> "raised"]),
                      <<asked_one("process_text", processor_ok)>>)

\* plagiarism_prevention_agent/app/main.py 105-246: process_supervisor_request.
\* loading says that the models are still being loaded. Whatever raises, a
\* body that is no object or a task or parameters that are none, ends in the
\* report of the except branch.
plagiarism_process(rows, body, loading, processor_ok) ==
    IF loading
    THEN agent_result(rows, 200, plagiarism_report("FAILURE", [error |-> "loading"]), <<>>)
    ELSE IF \/ ~IsMapping(body)
            \/ ~IsMapping(GetOr(body, "task", EmptyDict))
            \/ ~IsMapping(GetOr(GetOr(body, "task", EmptyDict), "parameters", EmptyDict))
    THEN agent_result(rows, 200, plagiarism_report("FAILURE", [error |-> "raised"]), <<>>)
    ELSE plagiarism_check(rows,
            plagiarism_text(GetOr(GetOr(body, "task", EmptyDict), "parameters", EmptyDict)),
            processor_ok)

s_supervisor == Str(<<"s", "u", "p", "e", "r", "v", "i", "s", "o", "r">>)

s_empty == Str(<<>>)

\* Proctor_Ai/app/main.py 151-158 and 163-170: the body of each return
proctor_report(body, st, results) ==
    [message_id |-> uuid4, sender |-> "daily_revision_proctor_agent",
     recipient |-> IF body = NotJson THEN s_supervisor ELSE GetOr(body, "sender", s_supervisor),
     related_message_id |-> IF body = NotJson THEN s_empty
                            ELSE GetOr(body, "message_id", s_empty),
     status |-> st, results |-> results]

\* lines 144-160: the database session and the analysis; analyze_ok says
\* that supervisor_analyze_student goes through
proctor_analyze(rows, body, analyze_ok) ==
    agent_result(rows, 200,
                 IF analyze_ok THEN proctor_report(body, "SUCCESS", [analysis |-> TRUE])
                 ELSE proctor_report(body, "FAILURE", [error |-> "raised"]),
                 <<asked_one("get_db", TRUE),
                   asked_one("supervisor_analyze_student", analyze_ok)>>)

\* Proctor_Ai/app/main.py 93-170: process_task. request_ok says that
\* SupervisorAgentRequest accepts what was built from the parameters. A body
\* that is JSON but no object raises once more inside the except branch
\* (body.get), which nothing catches.
proctor_process(rows, body, request_ok, analyze_ok) ==
    IF body = NotJson
    THEN agent_result(rows, 200, proctor_report(body, "FAILURE", [error |-> "raised"]), <<>>)
    ELSE IF ~IsMapping(body) THEN unhandled(rows, <<>>)
    ELSE IF \/ ~IsMapping(GetOr(body, "task", EmptyDict))
            \/ ~IsMapping(GetOr(GetOr(body, "task", EmptyDict), "parameters", EmptyDict))
            \/ ~request_ok
    THEN agent_result(rows, 200, proctor_report(body, "FAILURE", [error |-> "raised"]), <<>>)
    ELSE proctor_analyze(rows, body, analyze_ok)

----------------------------------------------------------------------------
(* The specification of the four /process endpoints *)

Agents == {"citation_manager", "lecture_insight", "plagiarism_prevention", "proctor"}

t_essay == <<"t", "h", "e", " ", "q", "u", "i", "c", "k", " ", "b", "r", "o", "w", "n", " ", "f", "o", "x", " ", "j", "u", "m", "p", "s">>

\* A supervisor request whose part after the colon is long enough, and one
\* whose part is not.
t_request_long == <<"c", "h", "e", "c", "k", ":", " ">> \o t_essay

t_request_short == <<"c", "h", "e", "c", "k", ":", " ", "h", "i">>

\* A body with the fields of a TaskEnvelope.
Envelope(sender, params) ==
    [message_id |-> Str(<<"m", "1">>), sender |-> sender, task |-> [parameters |-> params]]

Senders == {s_supervisor, Str(<<"g", "w">>)}

\* Bodies that are no TaskEnvelope: no JSON, a JSON array, objects without
\* the ids or without a task, a task that is null, and the parameters of an
\* agent without the ids around them.
InvalidBodies(Params) ==
    {NotJson, List(<<>>), EmptyDict,
     [message_id |-> Str(<<"m", "1">>), sender |-> s_supervisor],
     [message_id |-> Str(<<"m", "1">>), sender |-> s_supervisor, task |-> None]}
    \cup {[task |-> [parameters |-> p]] : p \in Params}

Bodies(Params) ==
    InvalidBodies(Params) \cup {Envelope(s, p) : s \in Senders, p \in Params}

\* The parameters of the citation manager, as process_task reads them.
CitationParams == {r \in ProcessRequests : ~r.llm_parse /\ ~r.save /\ r.raw_text # Str(rt_title)}

LectureParams ==
    {None, EmptyDict,
     ("audio_url" :> Str(<<"a">>)),
     ("url" :> Str(<<"a">>)) @@ ("format" :> Str(<<"w", "a", "v">>)),
     ("audio_input" :> [type |-> Str(<<"u", "r", "l">>), data |-> Str(<<"a">>)]),
     ("audio_input" :> EmptyDict),
     ("agent_name" :> Str(<<"l">>)) @@ ("payload" :> ("audio_url" :> Str(<<"a">>))),
     ("data" :> ("url" :> Str(<<"a">>)))}

PlagiarismParams ==
    {None, EmptyDict,
     ("text" :> Str(t_essay)),
     ("student_text" :> Str(<<>>)),
     ("payload" :> ("input" :> ("student_text" :> Str(t_essay)))),
     ("payload" :> ("text" :> Str(t_essay))),
     ("data" :> ("content" :> Str(t_essay))),
     ("data" :> Str(t_essay)),
     ("request" :> Str(t_request_long)),
     ("original_request" :> Str(t_request_short))}

ProctorParams ==
    {None, EmptyDict,
     ("student_id" :> Str(<<"7">>)),
     ("student_id" :> Str(<<"7">>)) @@ ("study_schedule" :> EmptyDict)}

CitationProcess(body) ==
    Serve("citation_manager", body, citation_process(store, cslMode, body, None, EmptyDict))

LectureProcess(body, input_ok, lookup, workflow, save_ok) ==
    Serve("lecture_insight", body,
          lecture_process(store, body, input_ok, lookup, workflow, save_ok))

PlagiarismProcess(body, loading, processor_ok) ==
    Serve("plagiarism_prevention", body, plagiarism_process(store, body, loading, processor_ok))

ProctorProcess(body, request_ok, analyze_ok) ==
    Serve("proctor", body, proctor_process(store, body, request_ok, analyze_ok))

\* The inputs of /api/v1/process-lecture: an audio_input and a user_id.
LectureInputs ==
    {[audio_input |-> [type |-> Str(<<"u", "r", "l">>), data |-> Str(<<"a">>)], user_id |-> u] :
        u \in Senders}

ProcessLecture(input_data, lookup, workflow, save_ok) ==
    Serve("process_lecture", input_data, process_lecture(store, lookup, workflow, save_ok))

NextAgents ==
    \/ \E body \in Bodies(CitationParams) : CitationProcess(body)
    \/ \E body \in Bodies(LectureParams), input_ok \in BOOLEAN,
          lookup \in {"miss", "hit", "raises"}, workflow \in {"ok", "error", "raises"},
          save_ok \in BOOLEAN :
            LectureProcess(body, input_ok, lookup, workflow, save_ok)
    \/ \E body \in Bodies(PlagiarismParams), loading \in BOOLEAN, processor_ok \in BOOLEAN :
            PlagiarismProcess(body, loading, processor_ok)
    \/ \E body \in Bodies(ProctorParams), request_ok \in BOOLEAN, analyze_ok \in BOOLEAN :
            ProctorProcess(body, request_ok, analyze_ok)
    \/ \E input_data \in LectureInputs, lookup \in {"miss", "hit", "raises"},
          workflow \in {"ok", "error", "raises"}, save_ok \in BOOLEAN :
            ProcessLecture(input_data, lookup, workflow, save_ok)

SpecAgents == InitRequest /\ [][NextAgents]_vars

\* The request came with a sender and a message_id.
HasIds(body) == IsMapping(body) /\ {"sender", "message_id"} \subseteq DOMAIN body

\* C17: whatever agent served /process, the CompletionReport it answers with
\* has the status SUCCESS or FAILURE, the sender of the request as its
\* recipient and the message_id of the request as its related_message_id.
C17_ReportAnswersTheRequest ==
    (handler \in Agents /\ status = 200 /\ HasIds(request))
    => /\ response.status \in {"SUCCESS", "FAILURE"}
       /\ "recipient" \in DOMAIN response
       /\ response.recipient = request.sender
       /\ "related_message_id" \in DOMAIN response
       /\ response.related_message_id = request.message_id

\* C20: whatever agent served /process, a body that is no valid TaskEnvelope
\* is answered with HTTP 400 and an explanation, and nothing was done for it:
\* no collaborator or outside service was called and nothing was stored.
C20_InvalidEnvelopeIsClientError ==
    (handler \in Agents /\ ~envelope_valid(request))
    => /\ status = 400
       /\ "detail" \in DOMAIN response
       /\ external = <<>>
       /\ saves = <<>>
       /\ store = <<>>

----------------------------------------------------------------------------
(* The specification of one call of extract_from_raw_text *)

\* engine.py 56: re.search raises TypeError for a truthy raw that is no str;
\* nothing in extract_from_raw_text catches it.
extract_from_raw_text_raises(raw) == TruthyJson(raw) /\ (IsMapping(raw) \/ ~IsStr(raw))

\* extract_from_raw_text(raw), whatever raw is: what it returns, or that it
\* raised.
extract_call(raw) ==
    IF extract_from_raw_text_raises(raw) THEN [raised |-> TRUE, value |-> None]
    ELSE IF IsMapping(raw) THEN [raised |-> FALSE, value |-> EmptyDict]
    ELSE [raised |-> FALSE, value |-> extract_from_raw_text(raw)]

MaxYearParts == 3

\* The parts of a reference text: a parenthesized year, a bare one, a name,
\* and a number of five digits behind a word.
YearParts ==
    {<<"(", "1", "9", "9", "9", ")">>,
     <<"2", "0", "0", "1">>,
     <<"S", "m", "i", "t", "h", " ", "J">>,
     <<"v", "1", "2", "3", "4", "5">>}

\* The texts made of up to MaxYearParts parts with a space between them, and
\* values of a raw_text parameter that are no text: null, numbers, arrays
\* and objects.
ExtractInputs ==
    {Str(join(<<" ">>, l)) : l \in ListsUpTo(YearParts, MaxYearParts)}
    \cup {None, Num(0), Num(7), List(<<>>), List(<<Num(1)>>), EmptyDict,
          ("text" :> Str(<<"a">>))}

InitExtract ==
    /\ callFn = "none"
    /\ callArgs \in {<<raw>> : raw \in ExtractInputs}
    /\ callResult = <<>>
    /\ IdleMerge
    /\ IdleNorm
    /\ IdleSave
    /\ IdleRequest
    /\ IdlePlagiarism

\* extracted = extract_from_raw_text(raw)
CallExtract ==
    /\ callFn = "none"
    /\ callFn' = "extract_from_raw_text"
    /\ callResult' = extract_call(callArgs[1])
    /\ UNCHANGED <<callArgs, varsMerge, varsNorm, varsSave, varsRequest, varsPlagiarism>>

NextExtract == CallExtract

SpecExtract == InitExtract /\ [][NextExtract]_vars

\* C21: extract_from_raw_text never raises: it returns the empty mapping for
\* an empty input, and a mapping for every other one, a raw_text that is no
\* string included.
C21_ExtractNeverRaises ==
    callFn = "extract_from_raw_text"
    => /\ ~callResult.raised
       /\ IsMapping(callResult.value)
       /\ ~TruthyJson(callArgs[1]) => callResult.value = EmptyDict

\* The places of a text where a parenthesized 4-digit number opens.
ParenYears(r) ==
    {i \in 1..Len(r) : r[i] = "(" /\ AllDigits(r, i + 1, 4) /\ at(r, i + 5, <<")">>)}

\* The places of a text where a 4-digit number stands on its own.
BareYears(r) ==
    {i \in 1..Len(r) : AllDigits(r, i, 4) /\ WordBoundary(r, i) /\ WordBoundary(r, i + 4)}

\* The four characters of r from place i on.
FourAt(r, i) == Str(SubSeq(r, i, i + 3))

\* The year found in the text r is y.
YearByPrecedence(r, y) ==
    /\ ParenYears(r) # {} => y = FourAt(r, Min(ParenYears(r)) + 1)
    /\ (ParenYears(r) = {} /\ y # None) => \E i \in BareYears(r) : y = FourAt(r, i)
    /\ (ParenYears(r) = {} /\ BareYears(r) # {}) => y # None

\* C22: the year extract_from_raw_text returns for a text is the first
\* parenthesized 4-digit number of the text when there is one, and a bare
\* 4-digit number only when the text has no parenthesized one, in whatever
\* order they stand.
C22_ParenthesizedYearFirst ==
    (callFn = "extract_from_raw_text" /\ ~IsMapping(callArgs[1]) /\ IsStr(callArgs[1]))
    => YearByPrecedence(callArgs[1].v, Get(callResult.value, "year"))

----------------------------------------------------------------------------
(* ltm.py: search_citations *)

\* row.get(field) or ""
text_or_empty(x) == IF Truthy(x) THEN x.v ELSE <<>>

\* s.count(p) from place i on: the occurrences of p that do not overlap,
\* counted from the left; the empty p is found Len(s) + 1 times.
RECURSIVE count_from(_, _, _)
count_from(s, p, i) ==
    IF p = <<>> THEN Len(s) + 1
    ELSE IF i + Len(p) - 1 > Len(s) THEN 0
    ELSE IF at(s, i, p) THEN 1 + count_from(s, p, i + Len(p))
    ELSE count_from(s, p, i + 1)

\* field.lower().count(q)
count_lower(field, q) == count_from(lower(text_or_empty(field)), q, 1)

\* lines 136-142: score(row) for the query q, already stripped and lowered
score(row, q, user_id) ==
    count_lower(row.title, q) + count_lower(row.formatted, q) + count_lower(row.metadata, q)
        + (IF Truthy(user_id) /\ row.user_id = user_id THEN 1 ELSE 0)

\* lines 116-127: the WHERE clause; a filter that is falsy is left out
where_clause(row, user_id, style, since, until) ==
    /\ Truthy(user_id) => row.user_id = user_id
    /\ Truthy(style) => (row.style # None /\ lower(row.style.v) = lower(style.v))
    /\ Truthy(since) => row.created_at >= since.v
    /\ Truthy(until) => row.created_at <= until.v

RECURSIVE select_where(_, _, _, _, _)
select_where(rows, user_id, style, since, until) ==
    IF rows = <<>> THEN <<>>
    ELSE IF where_clause(Head(rows), user_id, style, since, until)
    THEN <<Head(rows)>> \o select_where(Tail(rows), user_id, style, since, until)
    ELSE select_where(Tail(rows), user_id, style, since, until)

\* The rows with the key they are sorted by: (0, created_at) for ORDER BY
\* created_at, (score, created_at) for rows.sort.
RECURSIVE with_keys(_, _, _, _)
with_keys(rows, ranked, q, user_id) ==
    IF rows = <<>> THEN <<>>
    ELSE <<[k1 |-> IF ranked THEN score(Head(rows), q, user_id) ELSE 0,
            k2 |-> Head(rows).created_at,
            row |-> Head(rows)]>>
         \o with_keys(Tail(rows), ranked, q, user_id)

\* (a.k1, a.k2) >= (b.k1, b.k2), as Python compares tuples
key_ge(a, b) == a.k1 > b.k1 \/ (a.k1 = b.k1 /\ a.k2 >= b.k2)

\* x put into l, which is sorted from the largest key down, behind the
\* elements that are not smaller
insert_desc(l, x) ==
    LET ahead(e) == key_ge(e, x)
        behind(e) == ~key_ge(e, x)
    IN SelectSeq(l, ahead) \o <<x>> \o SelectSeq(l, behind)

\* sorted(l, reverse=True): from the largest key down, equal keys in the
\* order they had
RECURSIVE sort_desc(_, _)
sort_desc(l, done) == IF l = <<>> THEN done ELSE sort_desc(Tail(l), insert_desc(done, Head(l)))

RECURSIVE rows_of(_)
rows_of(l) == IF l = <<>> THEN <<>> ELSE <<Head(l).row>> \o rows_of(Tail(l))

RECURSIVE reversed(_)
reversed(l) == IF l = <<>> THEN <<>> ELSE Append(reversed(Tail(l)), Head(l))

\* ORDER BY created_at DESC. SQL leaves open in which order rows of one
\* created_at come: ties says whether the one stored first comes first.
order_by_created_at(rows, ties) ==
    rows_of(sort_desc(with_keys(IF ties = "stored_first" THEN rows ELSE reversed(rows),
                                FALSE, <<>>, None), <<>>))

\* LIMIT ?: SQLite takes a negative limit for no limit
sql_limit(rows, limit) ==
    IF limit < 0 \/ limit >= Len(rows) THEN rows ELSE SubSeq(rows, 1, limit)

\* lines 135-144: rows.sort(key=lambda r: (score(r), r.get("created_at")), reverse=True)
rank(rows, query, user_id) ==
    IF Truthy(query)
    THEN rows_of(sort_desc(with_keys(rows, TRUE, lower(strip(query.v)), user_id), <<>>))
    ELSE rows

\* json.loads of the text of a column
json_loads(x) == [t |-> "json", text |-> text_or_empty(x)]

\* lines 146-162: the authors and metadata of the rows returned, decoded
RECURSIVE decode(_)
decode(rows) ==
    IF rows = <<>> THEN <<>>
    ELSE <<[Head(rows) EXCEPT !.authors = json_loads(@), !.metadata = json_loads(@)]>>
         \o decode(Tail(rows))

\* search_citations on a table with the given rows, oldest first; the columns
\* are kept as the text they store (None for NULL), created_at as a number of
\* seconds
search_citations(rows, user_id, query, style, limit, since, until, ties) ==
    decode(rank(sql_limit(order_by_created_at(select_where(rows, user_id, style, since, until),
                                              ties),
                          limit),
                query, user_id))

----------------------------------------------------------------------------
(* The specification of one call of search_citations *)

MaxSearchRows == 3

\* The seconds at which rows are stored.
ClockTicks == {1, 2}

\* What three rows hold apart from their id and created_at.
SearchRowKinds ==
    {[title |-> Str(<<"a">>), formatted |-> Str(<<"a", " ", "A">>),
      metadata |-> Str(<<"{", "}">>), authors |-> Str(<<"[", "]">>),
      style |-> Str(s_APA), user_id |-> Str(<<"u">>)],
     [title |-> None, formatted |-> Str(<<"b">>),
      metadata |-> Str(<<"{", "a", "}">>), authors |-> Str(<<"[", "]">>),
      style |-> Str(lower(s_APA)), user_id |-> Str(<<"v">>)],
     [title |-> Str(<<"a", "a", "a">>), formatted |-> Str(<<"c">>),
      metadata |-> Str(<<"{", "}">>), authors |-> Str(<<"[", "]">>),
      style |-> Str(<<"M", "L", "A">>), user_id |-> Str(<<"u">>)]}

\* The row of kind k with the id and the created_at given.
SearchRow(k, id, ts) ==
    [id |-> id, created_at |-> ts, title |-> k.title, formatted |-> k.formatted,
     metadata |-> k.metadata, authors |-> k.authors, style |-> k.style, user_id |-> k.user_id]

\* The tables of up to MaxSearchRows rows: ids count up and the clock, which
\* ticks in seconds, does not go back.
SearchStores ==
    UNION {{[i \in 1..n |-> SearchRow(ks[i], i, ts[i])] :
              ks \in [1..n -> SearchRowKinds],
              ts \in {f \in [1..n -> ClockTicks] : \A i \in 1..n : i > 1 => f[i - 1] <= f[i]}} :
           n \in 0..MaxSearchRows}

\* The arguments of a call: user_id, query, style, limit, since, until.
SearchArgs ==
    {<<u, q, st, l, w[1], w[2]>> :
        u \in {None, Str(<<"u">>)},
        q \in {None, Str(<<" ", "A">>), Str(<<" ">>)},
        st \in {None, Str(s_APA)},
        l \in {-1, 0, 2},
        w \in {<<None, None>>, <<Num(2), None>>, <<None, Num(1)>>}}

InitSearch ==
    /\ store \in SearchStores
    /\ cslMode = "missing"
    /\ saveItem = EmptyDict
    /\ saveForce = FALSE
    /\ saveCalled = FALSE
    /\ storeBefore = <<>>
    /\ callFn = "none"
    /\ callArgs \in SearchArgs
    /\ callResult = <<>>
    /\ IdleMerge
    /\ IdleNorm
    /\ IdleRequest
    /\ IdlePlagiarism

\* rows = search_citations(user_id, query, style, limit, since, until)
CallSearch(ties) ==
    /\ callFn = "none"
    /\ callFn' = "search_citations"
    /\ callResult' = search_citations(store, callArgs[1], callArgs[2], callArgs[3], callArgs[4],
                                      callArgs[5], callArgs[6], ties)
    /\ UNCHANGED <<callArgs, varsMerge, varsNorm, varsSave, varsRequest, varsPlagiarism>>

NextSearch == \E ties \in {"stored_first", "stored_last"} : CallSearch(ties)

SpecSearch == InitSearch /\ [][NextSearch]_vars

\* The text query of the call, as it is matched: without the blanks around
\* it and in lower case.
Matched == lower(strip(callArgs[2].v))

\* How often the query is found in the title, the formatted text and the
\* metadata of the stored row with the id of r.
MatchCount(r) ==
    count_lower(store[r.id].title, Matched) + count_lower(store[r.id].formatted, Matched)
        + count_lower(store[r.id].metadata, Matched)

\* The stored row of r passes the filters of the call.
PassesFilters(r) ==
    /\ callArgs[1] # None => store[r.id].user_id = callArgs[1]
    /\ callArgs[3] # None => lower(store[r.id].style.v) = lower(callArgs[3].v)
    /\ callArgs[5] # None => store[r.id].created_at >= callArgs[5].v
    /\ callArgs[6] # None => store[r.id].created_at <= callArgs[6].v

\* Row a may stand before row b in the answer.
InOrder(a, b) ==
    IF callArgs[2] # None
    THEN \/ MatchCount(a) > MatchCount(b)
         \/ MatchCount(a) = MatchCount(b) /\ a.created_at >= b.created_at
    ELSE a.created_at >= b.created_at

\* C23: search_citations returns at most limit rows; each of them passes
\* all the filters given (user_id, style, since, until); with a text query
\* they come by falling match count over title, formatted and metadata, the
\* more recent first among equal counts, and without one the more recent
\* first.
C23_SearchFiltersLimitsOrders ==
    callFn = "search_citations"
    => /\ Len(callResult) <= callArgs[4]
       /\ \A i \in 1..Len(callResult) : PassesFilters(callResult[i])
       /\ \A i \in 1..Len(callResult) : \A j \in i..Len(callResult) :
              InOrder(callResult[i], callResult[j])

----------------------------------------------------------------------------
(* plagiarism_prevention_agent/app/main.py: the loader thread and /process *)

MaxRequests == 2

\* Everything of the module that the plagiarism agent does not touch.
varsOthers == <<varsMerge, varsNorm, varsSave, varsRequest, varsCall>>

\* lines 73-80, startup_event: the thread is started, the server goes on to
\* serve requests.
Startup ==
    /\ loader = "unstarted"
    /\ loader' = "started"
    /\ UNCHANGED <<models_loaded, models_loading, processor, constructed, worker, arrival,
                   lastAnswer, served, reported, varsOthers>>

\* line 62, the first statement of the thread: _models_loading = True
LoaderBegins ==
    /\ loader = "started"
    /\ models_loading' = TRUE
    /\ loader' = "get_processor"
    /\ UNCHANGED <<models_loaded, processor, constructed, worker, arrival, lastAnswer, served,
                   reported, varsOthers>>

\* lines 65 and 31: get_processor looks at _processor
LoaderLooks ==
    /\ loader = "get_processor"
    /\ loader' = IF processor = 0 THEN "constructing" ELSE "loaded"
    /\ UNCHANGED <<models_loaded, models_loading, processor, constructed, worker, arrival,
                   lastAnswer, served, reported, varsOthers>>

\* line 32: _processor = PlagiarismProcessor(), which takes minutes; when it
\* raises, the except branch of lines 68-69 is taken
LoaderConstructs(ok) ==
    /\ loader = "constructing"
    /\ IF ok
       THEN /\ constructed' = constructed + 1
            /\ processor' = constructed + 1
            /\ loader' = "loaded"
       ELSE /\ UNCHANGED <<constructed, processor>>
            /\ loader' = "finally"
    /\ UNCHANGED <<models_loaded, models_loading, worker, arrival, lastAnswer, served, reported,
                   varsOthers>>

\* line 66: _models_loaded = True
LoaderLoaded ==
    /\ loader = "loaded"
    /\ models_loaded' = TRUE
    /\ loader' = "finally"
    /\ UNCHANGED <<models_loading, processor, constructed, worker, arrival, lastAnswer, served,
                   reported, varsOthers>>

\* lines 70-71: finally: _models_loading = False
LoaderEnds ==
    /\ loader = "finally"
    /\ models_loading' = FALSE
    /\ loader' = "done"
    /\ UNCHANGED <<models_loaded, processor, constructed, worker, arrival, lastAnswer, served,
                   reported, varsOthers>>

\* lines 105-123: a request of /process is taken up and the two flags are
\* looked at; arrival keeps where the loader stood then
Receive ==
    /\ worker = "idle"
    /\ loader # "unstarted"
    /\ served < MaxRequests
    /\ arrival' = loader
    /\ IF models_loading /\ ~models_loaded
       THEN /\ lastAnswer' = "loading"
            /\ served' = served + 1
            /\ worker' = "idle"
       ELSE /\ lastAnswer' = "pending"
            /\ served' = served
            /\ worker' = "reading"
    /\ UNCHANGED <<models_loaded, models_loading, processor, constructed, loader, reported,
                   varsOthers>>

\* lines 125-176: the body is read and the text looked for
ReadText(has_text) ==
    /\ worker = "reading"
    /\ IF has_text
       THEN /\ worker' = "get_processor"
            /\ UNCHANGED <<lastAnswer, served>>
       ELSE /\ worker' = "idle"
            /\ lastAnswer' = "no_text"
            /\ served' = served + 1
    /\ UNCHANGED <<models_loaded, models_loading, processor, constructed, loader, arrival,
                   reported, varsOthers>>

\* lines 181 and 31: get_processor looks at _processor
WorkerLooks ==
    /\ worker = "get_processor"
    /\ worker' = IF processor = 0 THEN "constructing" ELSE "process_text"
    /\ UNCHANGED <<models_loaded, models_loading, processor, constructed, loader, arrival,
                   lastAnswer, served, reported, varsOthers>>

\* line 32, called by the request: _processor = PlagiarismProcessor(); when
\* it raises, the except branch of lines 235-246 answers
WorkerConstructs(ok) ==
    /\ worker = "constructing"
    /\ IF ok
       THEN /\ constructed' = constructed + 1
            /\ processor' = constructed + 1
            /\ worker' = "process_text"
            /\ UNCHANGED <<lastAnswer, served>>
       ELSE /\ UNCHANGED <<constructed, processor>>
            /\ worker' = "idle"
            /\ lastAnswer' = "failure"
            /\ served' = served + 1
    /\ UNCHANGED <<models_loaded, models_loading, loader, arrival, reported, varsOthers>>

\* lines 182-246: process_text and the report
ProcessText(ok) ==
    /\ worker = "process_text"
    /\ worker' = "idle"
    /\ lastAnswer' = IF ok THEN "success" ELSE "failure"
    /\ served' = served + 1
    /\ UNCHANGED <<models_loaded, models_loading, processor, constructed, loader, arrival,
                   reported, varsOthers>>

\* lines 98-101, health_check (and root, lines 82-96): models_loaded is
\* reported
Health ==
    /\ worker = "idle"
    /\ loader # "unstarted"
    /\ reported' = models_loaded
    /\ UNCHANGED <<models_loaded, models_loading, processor, constructed, loader, worker,
                   arrival, lastAnswer, served, varsOthers>>

InitPlagiarism ==
    /\ IdleMerge
    /\ IdleNorm
    /\ IdleSave
    /\ IdleRequest
    /\ IdlePlagiarism
    /\ IdleCall

NextPlagiarism ==
    \/ Startup
    \/ LoaderBegins
    \/ LoaderLooks
    \/ \E ok \in BOOLEAN : LoaderConstructs(ok)
    \/ LoaderLoaded
    \/ LoaderEnds
    \/ Receive
    \/ \E has_text \in BOOLEAN : ReadText(has_text)
    \/ WorkerLooks
    \/ \E ok \in BOOLEAN : WorkerConstructs(ok)
    \/ \E ok \in BOOLEAN : ProcessText(ok)
    \/ Health

SpecPlagiarism == InitPlagiarism /\ [][NextPlagiarism]_vars

\* The places of the loader thread at which the load of the models is not
\* over yet: get_processor has not returned or raised.
LoadUnfinished == {"started", "get_processor", "constructing"}

\* C24: a /process request taken up while the application serves and the
\* background load of the models is not over is answered with the 'models
\* are still loading' failure at once: its text is not read and no processor
\* is asked for or constructed for it.
C24_LoadingAnswerUntilLoaded ==
    arrival \in LoadUnfinished => (worker = "idle" /\ lastAnswer = "loading")

\* C26: however the loader thread and the requests of /process interleave,
\* at most one PlagiarismProcessor is ever constructed.
C26_AtMostOneProcessor == constructed <= 1

\* C27: whenever the loader is not running after startup, models_loaded is
\* true exactly if a processor exists; and models_loaded, once true, stays
\* true.
C27_LoadedIffProcessor ==
    /\ (loader # "unstarted" /\ ~models_loading) => (models_loaded <=> processor # 0)
    /\ reported => models_loaded

----------------------------------------------------------------------------
(* lecture_insight/app.py: the order of cache lookup, workflow and cache save *)

LectureSteps == <<"ltm.lookup", "execute_workflow", "ltm.save">>

\* The response says that it comes from the cache.
CarriesCached ==
    /\ "results" \in DOMAIN response
    /\ "cached" \in DOMAIN response.results
    /\ response.results.cached

\* C25: a request of /process or /api/v1/process-lecture of the lecture
\* insight agent looks the cache up, then runs the workflow, then saves to
\* the cache, in this order: the workflow runs only after a lookup that
\* missed, the cache is written only after a workflow that ended without an
\* error, and only a response served from the cache carries cached = true.
C25_LookupWorkflowSave ==
    handler \in {"lecture_insight", "process_lecture"}
    => /\ Len(external) <= 3
       /\ \A i \in 1..Len(external) : external[i].service = LectureSteps[i]
       /\ Len(external) >= 2 => external[1].answer = [t |-> "miss"]
       /\ Len(external) = 3 => external[2].answer = Answered
       /\ CarriesCached => (Len(external) = 1 /\ external[1].answer = [t |-> "hit"])

C25_Witness ==
    /\ handler = "lecture_insight"
    /\ Len(external) = 3
    /\ external[3].answer = Answered
    /\ status = 200
    /\ response.status = "SUCCESS"
    /\ ~response.results.cached

----------------------------------------------------------------------------
(* save_to_ltm called twice in a row *)

\* C28: with force_save false, a call of save_to_ltm that follows a call
\* with the same record leaves the rows as the first call left them, also
\* when the record has only a url or a raw_text to identify it.
C28_UnforcedSaveIdempotent ==
    [][(saveCalled /\ ~saveForce /\ ~saveForce' /\ saveItem' = saveItem) => store' = store]_vars

----------------------------------------------------------------------------
(* /upload/pdf: the lists of the loop, the time budget and truncated *)

\* The three lists are as long as one another and as processed_count says.
InStep(t) ==
    /\ t.parsed_items = t.processed_count
    /\ t.items_formatted = t.processed_count
    /\ t.items_validation = t.processed_count

\* C29: in /upload/pdf parsed_items, items_formatted and items_validation
\* have one length after every turn of the loop and in the response, which
\* is processed_count and the reported count; the i-th item is built from
\* the i-th candidate; no candidate is processed after a reading of the
\* clock above the time budget; and truncated is true exactly when
\* processed_count is below total_candidates.
C29_UploadListsInStep ==
    (handler = "upload" /\ status = 200)
    => /\ \A k \in 1..Len(calls) : InStep(calls[k])
       /\ Len(response.items) = response.processed_count
       /\ Len(response.items_formatted) = response.processed_count
       /\ Len(response.items_validation) = response.processed_count
       /\ response.count = response.processed_count
       /\ response.processed_count <= Len(request.candidates)
       /\ \A i \in 1..response.processed_count :
            Get(response.items[i], "raw_text") = Str(request.candidates[i])
       /\ \A i \in 1..Len(external) :
            external[i].answer.v > time_budget_s => response.processed_count < i
       /\ response.total_candidates = Len(request.candidates)
       /\ response.truncated <=> response.processed_count < response.total_candidates

\* Of two different candidates the first was processed, and the reading
\* before the second was above the budget.
C29_Witness ==
    /\ handler = "upload"
    /\ status = 200
    /\ Len(request.candidates) = 2
    /\ request.candidates[1] # request.candidates[2]
    /\ response.processed_count = 1
    /\ Len(calls) = 1
    /\ response.truncated
    /\ Len(external) = 2
    /\ external[2].answer.v > time_budget_s


----------------------------------------------------------------------------
(* The specification of one /process request served on a store that has rows *)

MaxStoredRows == 1

\* Rows that earlier requests saved: one found by its title, one by its doi.
StoredRows ==
    {save_citation(<<>>, it, s_APA, <<"f">>, Str(<<"u">>))[1] :
        it \in {("title" :> Str(<<"U">>)), ("doi" :> Str(t_doi_lower))}}

Stores == ListsUpTo(StoredRows, MaxStoredRows)

\* The parameters of the requests, the LLM wrapper not being asked.
StoringParams == {r \in ProcessRequests : ~r.llm_parse}

InitStored ==
    /\ store \in Stores
    /\ storeBefore = store
    /\ cslMode \in CslModes
    /\ saveItem = EmptyDict
    /\ saveForce = FALSE
    /\ saveCalled = FALSE
    /\ IdleRequest
    /\ IdlePlagiarism
    /\ IdleCall
    /\ IdleMerge
    /\ IdleNorm

\* The registry has no record; a body is any JSON value, and the database
\* fails at the INSERT of some requests.
NextStored ==
    \/ \E body \in Bodies(StoringParams) : CitationProcess(body)
    \/ \E req \in StoringParams, db_fails \in BOOLEAN :
        ProcessTask(req, None, EmptyDict, db_fails)

SpecStored == InitStored /\ [][NextStored]_vars

\* The body of the request was no task envelope.
Malformed(name, req) == name = "citation_manager" /\ ~envelope_valid(req)

\* The save flag of the request that the handler named name served.
SaveFlag(name, req) ==
    IF name = "citation_manager" THEN ~Malformed(name, req) /\ req.task.parameters.save
    ELSE req.save

\* The record was built and the format_with_csl of line 245 returned.
Rendered(mode, ls) ==
    ls # <<>> /\ ~format_with_csl(mode, ls[1].final, Str(s_article)).raised

\* after is before with one more row at its end
OneRowAppended(before, after) ==
    Len(after) = Len(before) + 1 /\ SubSeq(after, 1, Len(before)) = before

\* C30: a /process request to the citation manager changes the rows of the
\* store only if its save flag is true and the rendering succeeded, and then
\* by appending one row; with save false, with a malformed body, or with a
\* rendering that raises, the rows after the request are the rows before it.
C30_ProcessFrame ==
    [][(handler = "none" /\ handler' \in {"process", "citation_manager"})
       => /\ store' # store
                => /\ SaveFlag(handler', request')
                   /\ Rendered(cslMode, layers')
                   /\ OneRowAppended(store, store')
          /\ (\/ ~SaveFlag(handler', request')
              \/ Malformed(handler', request')
              \/ ~Rendered(cslMode, layers'))
                => store' = store]_vars

\* A saving request was served on a store that had a row, and left one more.
C30_Witness ==
    /\ handler \in {"process", "citation_manager"}
    /\ SaveFlag(handler, request)
    /\ Rendered(cslMode, layers)
    /\ storeBefore # <<>>
    /\ OneRowAppended(storeBefore, store)

====
